---- MODULE Spec2Model ----
(***************************************************************************)
(* Poo Tracker AI service: the /analyze request handlers (the packaged     *)
(* service ai_service/main.py and the stand-alone main.py), the Redis      *)
(* cache manager, the request validator, and the analysis core             *)
(* (AnalyzerService, HealthAssessorService, HealthMetricsCalculator).      *)
(*                                                                         *)
(* Time stamps are minutes since an epoch.  Optional values (Python        *)
(* `x | None`) are sequences: <<>> is None and <<v>> is the value v.       *)
(* Averages are exact rationals <<numerator, denominator>>; comparisons    *)
(* against thresholds are done by cross-multiplication.                    *)
(***************************************************************************)
EXTENDS Integers, Sequences, FiniteSets, TLC

VARIABLES
    redis_client,   \* CacheManager.redis_client: "client" or "None"
    redisUp,        \* TRUE while the Redis server answers commands
    store,          \* the Redis key space: key -> serialized report
    now,            \* the wall clock (minutes) read by the validator and the legacy key
    pc,             \* per handler: position in analyze_patterns
    variant,        \* per handler: "service" or "legacy" entry point
    req,            \* per handler: index of the request in Requests (0: none)
    ran,            \* per handler: the computation steps invoked so far
    out,            \* per handler: the reply sent to the caller
    firstReply,     \* history: key -> reply body sent by the call that wrote the entry
    call,           \* direct call of a core function: its arguments
    ret             \* direct call of a core function: its result

vars == <<redis_client, redisUp, store, now, pc, variant, req, ran, out,
          firstReply, call, ret>>

svcVars == <<redis_client, redisUp, store, now, pc, variant, req, ran, out, firstReply>>
coreVars == <<call, ret>>

----------------------------------------------------------------------------
(* Bounds *)

NumHandlers == 1        \* request handlers (workers) of the service

Handlers == 1..NumHandlers

----------------------------------------------------------------------------
(* Optional values and small helpers *)

None == <<>>
Some(v) == <<v>>
IsNone(x) == x = <<>>
Val(x) == x[1]

Abs(x) == IF x < 0 THEN -x ELSE x

\* round(n / d) to the nearest integer, ties to even (Python round)
RoundDiv(n, d) ==
    LET q == n \div d
        r == n % d
    IN  IF 2 * r < d THEN q
        ELSE IF 2 * r > d THEN q + 1
        ELSE IF q % 2 = 0 THEN q ELSE q + 1

Min2(a, b) == IF a <= b THEN a ELSE b

RECURSIVE SeqSum(_)
SeqSum(s) == IF s = <<>> THEN 0 ELSE s[1] + SeqSum(Tail(s))

RECURSIVE SeqMap(_, _)
SeqMap(F(_), s) == IF s = <<>> THEN <<>> ELSE <<F(s[1])>> \o SeqMap(F, Tail(s))

Range(s) == {s[i] : i \in DOMAIN s}

SeqMin(xs) == CHOOSE x \in Range(xs) : \A y \in Range(xs) : x <= y
SeqMax(xs) == CHOOSE x \in Range(xs) : \A y \in Range(xs) : x >= y

\* the concatenation of a list of lists
RECURSIVE Flatten(_)
Flatten(ss) == IF ss = <<>> THEN <<>> ELSE ss[1] \o Flatten(Tail(ss))

MinutesPerHour == 60
MinutesPerDay == 1440
HalfDay == MinutesPerDay \div 2
timedelta_hours(h) == h * MinutesPerHour
date_of(t) == t \div MinutesPerDay

----------------------------------------------------------------------------
(* Records *)

BM(t, b, p, st, sa) ==
    [created_at |-> t, bristol_type |-> b, pain |-> p, strain |-> st,
     satisfaction |-> sa, user_id |-> "u1"]

Meal(t, cat, spicy, fiber, dairy, gluten) ==
    [meal_time |-> t, category |-> cat, spicy_level |-> spicy,
     fiber_rich |-> fiber, dairy |-> dairy, gluten |-> gluten]

Symptom(t, ty, sev) == [created_at |-> t, type |-> ty, severity |-> sev]

AnalysisRequest(entries, meals, symptoms, pred, recs) ==
    [entries |-> entries, meals |-> meals, symptoms |-> symptoms,
     include_predictions |-> pred, include_recommendations |-> recs]

\* Python truthiness of an optional list: None and [] are both falsy.
Truthy(optList) == ~IsNone(optList) /\ Val(optList) # <<>>
ListOrEmpty(optList) == IF IsNone(optList) THEN <<>> ELSE Val(optList)

----------------------------------------------------------------------------
(* Exact rationals <<n, d>> with d > 0; NaN (the mean of an empty pandas   *)
(* Series) is <<0, 0>> and makes every comparison false.                   *)

RECURSIVE GCD(_, _)
GCD(a, b) == IF b = 0 THEN a ELSE GCD(b, a % b)

NaN == <<0, 0>>
IsNaN(r) == r[2] = 0
Norm(n, d) ==
    LET g == GCD(Abs(n), d) IN IF g = 0 THEN NaN ELSE <<n \div g, d \div g>>
RInt(k) == <<k, 1>>
RAdd(a, b) == IF IsNaN(a) \/ IsNaN(b) THEN NaN
              ELSE Norm(a[1] * b[2] + b[1] * a[2], a[2] * b[2])
RLt(a, b) == ~IsNaN(a) /\ ~IsNaN(b) /\ a[1] * b[2] < b[1] * a[2]
RLe(a, b) == ~IsNaN(a) /\ ~IsNaN(b) /\ a[1] * b[2] <= b[1] * a[2]
RGt(a, b) == RLt(b, a)
RGe(a, b) == RLe(b, a)

\* pandas Series.mean() / sum(xs)/len(xs) of integers
Mean(xs) == IF xs = <<>> THEN NaN ELSE Norm(SeqSum(xs), Len(xs))

RECURSIVE RSum(_)
RSum(rs) == IF rs = <<>> THEN RInt(0) ELSE RAdd(rs[1], RSum(Tail(rs)))

\* sum(scores) / len(scores) over a non-empty list of averages
MeanOfMeans(rs) ==
    LET t == RSum(rs) IN IF IsNaN(t) THEN NaN ELSE Norm(t[1], t[2] * Len(rs))

----------------------------------------------------------------------------
(* Fixed-point arithmetic for standard deviations, and grouping by date *)

\* Floating-point ratios are kept in fixed point, in hundredths; scores are
\* kept in hundredths of a point, the precision of round(x, 2).
Scale == 10 * 10

RECURSIVE isqrt_between(_, _, _)
isqrt_between(n, lo, hi) ==
    IF lo >= hi THEN lo
    ELSE LET mid == (lo + hi + 1) \div 2
         IN  IF mid * mid <= n THEN isqrt_between(n, mid, hi)
             ELSE isqrt_between(n, lo, mid - 1)

\* the square root, rounded down
isqrt(n) == isqrt_between(n, 0, Min2(n, 46340))

SumSq(xs) == SeqSum([i \in DOMAIN xs |-> xs[i] * xs[i]])

\* n * sum(x^2) - sum(x)^2: n^2 times the population variance
SpreadOf(xs) == Len(xs) * SumSq(xs) - SeqSum(xs) * SeqSum(xs)

\* np.std(xs), ddof = 0, in hundredths
np_std(xs) == isqrt((Scale * Scale * SpreadOf(xs)) \div (Len(xs) * Len(xs)))

\* Series.std(), ddof = 1, in hundredths; NaN (None) for fewer than 2 values
pd_std(xs) ==
    IF Len(xs) < 2 THEN None
    ELSE Some(isqrt((Scale * Scale * SpreadOf(xs)) \div (Len(xs) * (Len(xs) - 1))))

\* std / mean in hundredths, for ddof = 0 and ddof = 1 (mean > 0)
np_cv(xs) == isqrt((Scale * Scale * SpreadOf(xs)) \div (SeqSum(xs) * SeqSum(xs)))
pd_cv(xs) ==
    IF Len(xs) < 2 THEN None
    ELSE Some(isqrt((Scale * Scale * Len(xs) * SpreadOf(xs))
                    \div ((Len(xs) - 1) * SeqSum(xs) * SeqSum(xs))))

Max2(a, b) == IF a >= b THEN a ELSE b

\* the number of records of every date that occurs, in order of first occurrence
RECURSIVE FirstDates(_)
FirstDates(bms) ==
    IF bms = <<>> THEN <<>>
    ELSE LET earlier == FirstDates(SubSeq(bms, 1, Len(bms) - 1))
             d == date_of(bms[Len(bms)].created_at)
         IN  IF d \in Range(earlier) THEN earlier ELSE Append(earlier, d)

counts_per_date(bms, dates) ==
    [k \in DOMAIN dates |->
        Cardinality({i \in DOMAIN bms : date_of(bms[i].created_at) = dates[k]})]

----------------------------------------------------------------------------
(* DataValidator (utils/validators.py) *)

max_entries_per_request == 1000
min_bristol_type == 1
max_bristol_type == 7
min_score == 1
max_score == 10

validate_score(score) ==
    IsNone(score) \/ (min_score <= Val(score) /\ Val(score) <= max_score)

validate_bristol_type(bristol_type) ==
    min_bristol_type <= bristol_type /\ bristol_type <= max_bristol_type

\* the entry-count check without its empty-list branch
EntryCountErrors_NoEmptyCheck(request) ==
    IF Len(request.entries) > max_entries_per_request THEN {"Too many entries"}
    ELSE {}

\* errors of the entry-count check
EntryCountErrors(request) ==
    IF Len(request.entries) = 0 THEN {"No bowel movement entries provided"}
    ELSE IF Len(request.entries) > max_entries_per_request THEN {"Too many entries"}
    ELSE {}

_validate_time_range(entries, clock) ==
    IF \E i \in DOMAIN entries : entries[i].created_at > clock
    THEN {"entries with future timestamps"} ELSE {}

_validate_bristol_types(entries) ==
    IF \E i \in DOMAIN entries : ~validate_bristol_type(entries[i].bristol_type)
    THEN {"invalid Bristol types"} ELSE {}

_validate_scores(entries) ==
    (IF \E i \in DOMAIN entries : ~validate_score(entries[i].pain)
     THEN {"Invalid pain score"} ELSE {})
    \cup (IF \E i \in DOMAIN entries : ~validate_score(entries[i].strain)
          THEN {"Invalid strain score"} ELSE {})
    \cup (IF \E i \in DOMAIN entries : ~validate_score(entries[i].satisfaction)
          THEN {"Invalid satisfaction score"} ELSE {})

_validate_meals(meals) ==
    IF \E i \in DOMAIN meals : ~validate_score(meals[i].spicy_level)
    THEN {"invalid spicy levels"} ELSE {}

_validate_symptoms(symptoms) ==
    IF \E i \in DOMAIN symptoms : ~validate_score(Some(symptoms[i].severity))
    THEN {"invalid severity"} ELSE {}

\* the errors list of the ValidationResult; is_valid is errors = {}
validate_analysis_request(request, clock) ==
    EntryCountErrors(request)
    \cup (IF request.entries # <<>>
          THEN _validate_time_range(request.entries, clock) ELSE {})
    \cup _validate_bristol_types(request.entries)
    \cup _validate_scores(request.entries)
    \cup (IF Truthy(request.meals) THEN _validate_meals(Val(request.meals)) ELSE {})
    \cup (IF Truthy(request.symptoms)
          THEN _validate_symptoms(Val(request.symptoms)) ELSE {})

----------------------------------------------------------------------------
(* AnalyzerService (services/analyzer.py) *)

bristol_of(df) == [i \in DOMAIN df |-> df[i].bristol_type]

\* df.head(k) and df.tail(k)
df_head(df, k) == SubSeq(df, 1, k)
df_tail(df, k) == SubSeq(df, Len(df) - k + 1, Len(df))

\* dropna() of an optional column
RECURSIVE dropna(_)
dropna(col) ==
    IF col = <<>> THEN <<>>
    ELSE (IF IsNone(col[1]) THEN <<>> ELSE <<Val(col[1])>>) \o dropna(Tail(col))

pain_of(df) == dropna([i \in DOMAIN df |-> df[i].pain])
satisfaction_of(df) == dropna([i \in DOMAIN df |-> df[i].satisfaction])

\* min(abs(avg - 3), abs(avg - 4)) for avg a rational
ideal_low == 3
ideal_high == 4
distance_from_ideal(avg) ==
    LET lo == Abs(avg[1] - ideal_low * avg[2])
        hi == Abs(avg[1] - ideal_high * avg[2])
    IN  Norm(Min2(lo, hi), avg[2])

\* a < b - t/10, a > b + t/10 for rationals a, b and a threshold in tenths
BelowBy(a, b, tenths) == RLt(a, RAdd(b, <<-tenths, 10>>))
AboveBy(a, b, tenths) == RGt(a, RAdd(b, <<tenths, 10>>))

bristol_threshold_tenths == 3
bristol_trend_min_len == 10

\* value_counts(): the types present, each with its count
value_counts(xs) ==
    [v \in Range(xs) |-> Cardinality({i \in DOMAIN xs : xs[i] = v})]

\* idxmax() of counts sorted by index: the smallest key with the largest count
idxmax(counts) ==
    CHOOSE v \in DOMAIN counts :
        /\ \A w \in DOMAIN counts : counts[w] <= counts[v]
        /\ \A w \in DOMAIN counts : counts[w] = counts[v] => v <= w

\* the trend field of _analyze_bristol_patterns: None unless len(df) > 10
bristol_patterns_trend(df) ==
    IF Len(df) > bristol_trend_min_len
    THEN LET third == Len(df) \div 3
             recent_avg == Mean(bristol_of(df_tail(df, third)))
             early_avg == Mean(bristol_of(df_head(df, third)))
             recent_distance == distance_from_ideal(recent_avg)
             early_distance == distance_from_ideal(early_avg)
         IN  IF BelowBy(recent_distance, early_distance, bristol_threshold_tenths)
             THEN Some("improving")
             ELSE IF AboveBy(recent_distance, early_distance, bristol_threshold_tenths)
             THEN Some("declining")
             ELSE Some("stable")
    ELSE None

\* percentages cut off after two decimals instead of rounded
bristol_percentages_Truncated(bristol_counts, total_entries) ==
    [t \in DOMAIN bristol_counts |-> (bristol_counts[t] * 100 * 100) \div total_entries]

\* (bristol_counts / total_entries * 100).round(2), in hundredths of a percent
bristol_percentages(bristol_counts, total_entries) ==
    [t \in DOMAIN bristol_counts |-> RoundDiv(bristol_counts[t] * 100 * 100, total_entries)]

excellent_above == 70
good_above == 50
fair_above == 30

\* percentages.get(t, 0)
percentage_of(percentages, t) ==
    IF t \in DOMAIN percentages THEN percentages[t] ELSE 0

health_label(healthy_range) ==
    IF healthy_range > excellent_above * 100 THEN "Excellent"
    ELSE IF healthy_range > good_above * 100 THEN "Good"
    ELSE IF healthy_range > fair_above * 100 THEN "Fair"
    ELSE "Poor"

_assess_bristol_health(percentages) ==
    health_label(percentage_of(percentages, ideal_low)
                 + percentage_of(percentages, ideal_high))

\* the BristolAnalysis built from the counts
bristol_analysis_of(bristol_counts, percentages, trend) ==
    [distribution |-> bristol_counts,
     percentages |-> percentages,
     most_common |-> idxmax(bristol_counts),
     health_indicator |-> _assess_bristol_health(percentages),
     trend |-> trend]

bristol_summary(bristol_counts, total_entries, trend) ==
    bristol_analysis_of(bristol_counts,
                        bristol_percentages(bristol_counts, total_entries), trend)

_analyze_bristol_patterns(df) ==
    bristol_summary(value_counts(bristol_of(df)), Len(df), bristol_patterns_trend(df))

\* df.groupby("date").size() and the statistics read off it
\* statistics whose mean is taken over every calendar day of the period
frequency_counts_PerCalendarDay(df) ==
    LET dates == {date_of(df[i].created_at) : i \in DOMAIN df}
        daily_counts == [d \in dates |->
                            Cardinality({i \in DOMAIN df : date_of(df[i].created_at) = d})]
        first_day == CHOOSE d \in dates : \A e \in dates : d <= e
        last_day == CHOOSE d \in dates : \A e \in dates : d >= e
    IN  [total_days |-> Cardinality(dates),
         total_entries |-> Len(df),
         max_daily |-> CHOOSE c \in Range(daily_counts) :
                           \A d \in dates : daily_counts[d] <= c,
         min_daily |-> CHOOSE c \in Range(daily_counts) :
                           \A d \in dates : daily_counts[d] >= c,
         avg_daily |-> Norm(Len(df), last_day - first_day + 1)]

frequency_counts(df) ==
    LET dates == {date_of(df[i].created_at) : i \in DOMAIN df}
        daily_counts == [d \in dates |->
                            Cardinality({i \in DOMAIN df : date_of(df[i].created_at) = d})]
    IN  [total_days |-> Cardinality(dates),
         total_entries |-> Len(df),
         max_daily |-> CHOOSE c \in Range(daily_counts) :
                           \A d \in dates : daily_counts[d] <= c,
         min_daily |-> CHOOSE c \in Range(daily_counts) :
                           \A d \in dates : daily_counts[d] >= c,
         avg_daily |-> Norm(Len(df), Cardinality(dates))]

regularity_min_len == 7
consistency_min_days == 3
max_hour_std == 12

\* 1 - min(cv, 1.0) of the daily counts, in hundredths; 0.5 below 3 days
_calculate_consistency_score(daily_counts) ==
    IF Len(daily_counts) < consistency_min_days THEN Scale \div 2
    ELSE IF SeqSum(daily_counts) = 0 THEN 0
    ELSE Max2(0, Scale - Min2(Val(pd_cv(daily_counts)), Scale))

_calculate_frequency_stats(df) ==
    [total_days |-> frequency_counts(df).total_days,
     total_entries |-> frequency_counts(df).total_entries,
     max_daily |-> frequency_counts(df).max_daily,
     min_daily |-> frequency_counts(df).min_daily,
     avg_daily |-> frequency_counts(df).avg_daily,
     consistency_score |->
         _calculate_consistency_score(counts_per_date(df, FirstDates(df)))]

\* created_at.dt.hour
hour_of(t) == (t % MinutesPerDay) \div MinutesPerHour

\* max(0, 1 - x) for x in hundredths; max(0, nan) is 0
one_minus(x) == IF IsNone(x) THEN 0 ELSE Max2(0, Scale - Val(x))

\* max(0, 1 - hour_std / 12)
hour_score(hours) == Max2(0, Scale - Val(pd_std(hours)) \div max_hour_std)

\* the mean of the hour score and the day-to-day score; 0.5 below 7 records
_calculate_regularity_score(df) ==
    IF Len(df) < regularity_min_len THEN Scale \div 2
    ELSE (hour_score([i \in DOMAIN df |-> hour_of(df[i].created_at)])
          + one_minus(pd_cv(counts_per_date(df, FirstDates(df))))) \div 2

_analyze_timing_patterns(df) ==
    LET hours == [i \in DOMAIN df |-> hour_of(df[i].created_at)]
        hourly_dist == value_counts(hours)
    IN  [hourly_distribution |-> hourly_dist,
         peak_hour |-> idxmax(hourly_dist),
         regularity_score |-> _calculate_regularity_score(df)]

\* exceptions are values: a call either raises or returns
Raise(kind) == [raised |-> kind]
Return(v) == [raised |-> "", value |-> v]
Raised(r) == r.raised # ""

digestion_window_start_hours == 6
digestion_window_end_hours == 48
symptom_window_hours == 12

\* a window that leaves out its upper border
InWindow_HalfOpen(t, window_start, window_end) == t >= window_start /\ t < window_end

\* bm_df[(created_at >= window_start) & (created_at <= window_end)]
InWindow(t, window_start, window_end) == t >= window_start /\ t <= window_end

related_bms(bm_df, meal) ==
    LET window_start == meal.meal_time + timedelta_hours(digestion_window_start_hours)
        window_end == meal.meal_time + timedelta_hours(digestion_window_end_hours)
        Related(bm) == InWindow(bm.created_at, window_start, window_end)
    IN  SelectSeq(bm_df, Related)

\* the three averages over the non-empty lists of related records, one list
\* per meal; None when no meal has related records
category_averages(related) ==
    LET NonEmpty(bms) == bms # <<>>
        qualifying == SelectSeq(related, NonEmpty)
    IN  IF qualifying = <<>> THEN None
        ELSE Some([avg_bristol_scores |->
                       MeanOfMeans([i \in DOMAIN qualifying |->
                                       Mean(bristol_of(qualifying[i]))]),
                   avg_pain_scores |->
                       MeanOfMeans([i \in DOMAIN qualifying |->
                                       Mean(pain_of(qualifying[i]))]),
                   avg_satisfaction_scores |->
                       MeanOfMeans([i \in DOMAIN qualifying |->
                                       Mean(satisfaction_of(qualifying[i]))])])

\* None, or the three averages over the meals that have related records
_calculate_meal_category_correlation(bm_df, meal_df) ==
    category_averages([i \in DOMAIN meal_df |-> related_bms(bm_df, meal_df[i])])

\* Python truthiness of a float: 0.0 is falsy, NaN is truthy
FloatTruthy(r) == IsNaN(r) \/ r[1] # 0

spicy_threshold == 5
trigger_low_bristol == 2
trigger_high_bristol == 6
trigger_pain == 5
high_severity_pain == 7
beneficial_pain == 2

food_types == <<"spicy", "dairy", "gluten", "fiber_rich">>

\* meal_df[meal_df[col]]: a column holding None is not a boolean mask
MaskRaises(meal_df) ==
    \E i \in DOMAIN meal_df :
        IsNone(meal_df[i].dairy) \/ IsNone(meal_df[i].gluten) \/ IsNone(meal_df[i].fiber_rich)

food_group(meal_df, food_type) ==
    LET IsSpicy(m) == (IF IsNone(m.spicy_level) THEN 0 ELSE Val(m.spicy_level)) > spicy_threshold
        IsDairy(m) == m.dairy = Some(TRUE)
        IsGluten(m) == m.gluten = Some(TRUE)
        IsFiber(m) == m.fiber_rich = Some(TRUE)
    IN  CASE food_type = "spicy" -> SelectSeq(meal_df, IsSpicy)
          [] food_type = "dairy" -> SelectSeq(meal_df, IsDairy)
          [] food_type = "gluten" -> SelectSeq(meal_df, IsGluten)
          [] OTHER -> SelectSeq(meal_df, IsFiber)

\* "trigger", "beneficial" or "" for one food group
food_class(avg_bristol, avg_pain) ==
    IF \/ RLe(avg_bristol, RInt(trigger_low_bristol))
       \/ RGe(avg_bristol, RInt(trigger_high_bristol))
       \/ (FloatTruthy(avg_pain) /\ RGt(avg_pain, RInt(trigger_pain)))
    THEN "trigger"
    ELSE IF /\ RLe(RInt(ideal_low), avg_bristol)
            /\ RLe(avg_bristol, RInt(ideal_high))
            /\ (~FloatTruthy(avg_pain) \/ RLe(avg_pain, RInt(beneficial_pain)))
    THEN "beneficial"
    ELSE ""

\* the class of a group's correlation; an empty group has no correlation
correlation_class(correlation) ==
    IF IsNone(correlation) THEN ""
    ELSE food_class(Val(correlation).avg_bristol_scores,
                    Val(correlation).avg_pain_scores)

food_severity(avg_pain) ==
    IF FloatTruthy(avg_pain) /\ RGt(avg_pain, RInt(high_severity_pain))
    THEN "high" ELSE "medium"

\* the dictionary appended for a food group, with the list it goes to
food_entry(food_type, correlation) ==
    [type |-> food_type,
     class |-> correlation_class(correlation),
     severity |-> IF IsNone(correlation) THEN ""
                  ELSE food_severity(Val(correlation).avg_pain_scores)]

classify_food(bm_df, meal_df, food_type) ==
    food_entry(food_type,
               _calculate_meal_category_correlation(bm_df, food_group(meal_df, food_type)))

\* the two lists, in the order of the food groups
foods_by_class(entries) ==
    LET IsTrigger(e) == e.class = "trigger"
        IsBeneficial(e) == e.class = "beneficial"
        triggers == SelectSeq(entries, IsTrigger)
        beneficial == SelectSeq(entries, IsBeneficial)
    IN  [trigger_foods |-> [i \in DOMAIN triggers |->
                               [type |-> triggers[i].type,
                                severity |-> triggers[i].severity]],
         beneficial_foods |-> [i \in DOMAIN beneficial |->
                                  [type |-> beneficial[i].type]]]

_identify_trigger_beneficial_foods(bm_df, meal_df) ==
    IF MaskRaises(meal_df) THEN Raise("MaskError")
    ELSE Return(foods_by_class(
             [i \in DOMAIN food_types |-> classify_food(bm_df, meal_df, food_types[i])]))

timing_window_hours == 72

\* sorted(xs) of a list of numbers
RECURSIVE InsertSorted(_, _)
InsertSorted(x, sorted_tail) ==
    IF sorted_tail = <<>> THEN <<x>>
    ELSE IF x <= sorted_tail[1] THEN <<x>> \o sorted_tail
    ELSE <<sorted_tail[1]>> \o InsertSorted(x, Tail(sorted_tail))

RECURSIVE sorted_list(_)
sorted_list(xs) ==
    IF xs = <<>> THEN <<>> ELSE InsertSorted(xs[1], sorted_list(Tail(xs)))

\* the minutes from a meal to the next record after it; None without such a
\* record, or when it comes more than 72 hours later
time_delta(bm_df, meal) ==
    LET IsFuture(bm) == bm.created_at > meal.meal_time
        future_bms == SelectSeq(bm_df, IsFuture)
    IN  IF future_bms = <<>> THEN None
        ELSE LET next_bm == SeqMin([i \in DOMAIN future_bms |-> future_bms[i].created_at])
             IN  IF next_bm - meal.meal_time <= timedelta_hours(timing_window_hours)
                 THEN Some(next_bm - meal.meal_time)
                 ELSE None

\* sorted(time_deltas)[len(time_deltas) // 2], in hours
upper_middle(time_deltas) ==
    Norm(sorted_list(time_deltas)[Len(time_deltas) \div 2 + 1], MinutesPerHour)

\* the dictionary for the recorded gaps (in minutes): {} without gaps
timing_of(time_deltas) ==
    IF time_deltas = <<>> THEN <<>>
    ELSE [avg_meal_to_bm_hours |->
              Norm(SeqSum(time_deltas), MinutesPerHour * Len(time_deltas)),
          median_meal_to_bm_hours |-> upper_middle(time_deltas)]

_calculate_meal_timing_correlations(bm_df, meal_df) ==
    timing_of(Flatten([i \in DOMAIN meal_df |-> time_delta(bm_df, meal_df[i])]))

\* the result dictionary: the categories that have a correlation, the food
\* lists and the timing; an error raised for the food lists propagates
meal_correlation_result(correlation, foods, timing_correlations) ==
    IF Raised(foods) THEN foods
    ELSE Return([category_correlations |->
                     [c \in {k \in DOMAIN correlation : ~IsNone(correlation[k])} |->
                         Val(correlation[c])],
                 trigger_foods |-> foods.value.trigger_foods,
                 beneficial_foods |-> foods.value.beneficial_foods,
                 timing_correlations |-> timing_correlations])

_analyze_meal_correlations(bm_df, meal_df) ==
    LET categories == {Val(meal_df[i].category) :
                          i \in {j \in DOMAIN meal_df : ~IsNone(meal_df[j].category)}}
        OfCategory(c) == LET Is(m) == m.category = Some(c) IN SelectSeq(meal_df, Is)
    IN  meal_correlation_result(
            [c \in categories |-> _calculate_meal_category_correlation(bm_df, OfCategory(c))],
            _identify_trigger_beneficial_foods(bm_df, meal_df),
            _calculate_meal_timing_correlations(bm_df, meal_df))

nearby_bms(bm_df, symptom) ==
    LET window_start == symptom.created_at - timedelta_hours(symptom_window_hours)
        window_end == symptom.created_at + timedelta_hours(symptom_window_hours)
        Nearby(bm) == InWindow(bm.created_at, window_start, window_end)
    IN  SelectSeq(bm_df, Nearby)

_calculate_symptom_correlation(bm_df, symptom_df) ==
    LET related == Flatten([i \in DOMAIN symptom_df |-> nearby_bms(bm_df, symptom_df[i])])
    IN  [avg_severity |-> Mean([i \in DOMAIN symptom_df |-> symptom_df[i].severity]),
         avg_bristol_with_symptoms |->
             IF related = <<>> THEN None ELSE Some(Mean(bristol_of(related)))]

\* an analysis that reports a type only when records lie near its symptoms
_analyze_symptom_correlations_NearbyOnly(bm_df, symptom_df) ==
    LET OfType(ty) == LET Is(sy) == sy.type = ty IN SelectSeq(symptom_df, Is)
        types == {symptom_df[i].type :
                     i \in {j \in DOMAIN symptom_df : nearby_bms(bm_df, symptom_df[j]) # <<>>}}
    IN  [ty \in types |-> _calculate_symptom_correlation(bm_df, OfType(ty))]

_analyze_symptom_correlations(bm_df, symptom_df) ==
    LET types == {symptom_df[i].type : i \in DOMAIN symptom_df}
        OfType(ty) == LET Is(sy) == sy.type = ty IN SelectSeq(symptom_df, Is)
    IN  [ty \in types |-> _calculate_symptom_correlation(bm_df, OfType(ty))]

\* tagged scalars of a report: a datetime object, or a string holding a
\* formatted date ("T": ISO 8601 as the HTTP layer writes it; " ": str(datetime))
DateTime(t) == [type |-> "datetime", t |-> t]
DateText(sep, t) == [type |-> "str", sep |-> sep, t |-> t]

_create_analysis_metadata(bowel_movements, meals, symptoms) ==
    LET dates == [i \in DOMAIN bowel_movements |-> bowel_movements[i].created_at]
    IN  [data_period_start |-> DateTime(SeqMin(dates)),
         data_period_end |-> DateTime(SeqMax(dates)),
         total_entries |-> Len(bowel_movements),
         total_meals |-> Len(meals),
         total_symptoms |-> Len(symptoms),
         cache_hit |-> FALSE]

\* pd.DataFrame([item.to_dict() for item in data]): rows in the caller's order
_create_bowel_movement_dataframe(data) == data

\* lines 87-99: the sections of the result; an error raised by the meal
\* correlations propagates
result_sections(bm_df, meal_df, symptom_df, meal_correlations, symptom_correlations) ==
    IF Raised(meal_correlations) THEN meal_correlations
    ELSE Return(
        [patterns |-> [timing |-> _analyze_timing_patterns(bm_df),
                       frequency |-> _calculate_frequency_stats(bm_df)],
         bristol_analysis |-> _analyze_bristol_patterns(bm_df),
         correlations |-> [meals |-> meal_correlations.value,
                           symptoms |-> symptom_correlations],
         metadata |-> _create_analysis_metadata(bm_df, meal_df, symptom_df)])

\* lines 55-85: `if meals:` and `if symptoms:` skip None and empty lists
comprehensive_result(bm_df, meal_df, symptom_df) ==
    result_sections(
        bm_df, meal_df, symptom_df,
        IF meal_df # <<>> THEN _analyze_meal_correlations(bm_df, meal_df)
        ELSE Return(<<>>),
        IF symptom_df # <<>> THEN _analyze_symptom_correlations(bm_df, symptom_df)
        ELSE <<>>)

\* meals and symptoms are optional lists; {} is the empty function <<>>
analyze_comprehensive_patterns(bowel_movements_in, meals, symptoms) ==
    IF bowel_movements_in = <<>> THEN Raise("ValueError")
    ELSE comprehensive_result(
             _create_bowel_movement_dataframe(bowel_movements_in),
             ListOrEmpty(meals), ListOrEmpty(symptoms))

----------------------------------------------------------------------------
(* HealthMetricsCalculator and HealthAssessorService *)

default_bristol_weight == 5

\* bristol_health_weights.get(bt, 0.5), in tenths
bristol_health_weight(bt) ==
    CASE bt = 1 -> 1 [] bt = 2 -> 3 [] bt = 3 -> 9 [] bt = 4 -> 10
      [] bt = 5 -> 7 [] bt = 6 -> 3 [] bt = 7 -> 1
      [] OTHER -> default_bristol_weight

\* the score in hundredths of a point: round(avg_score * 100, 2)
calculate_bristol_health_score(bristol_types) ==
    IF bristol_types = <<>> THEN 0
    ELSE LET weighted_scores == [i \in DOMAIN bristol_types |->
                                    bristol_health_weight(bristol_types[i])]
         IN  RoundDiv(1000 * SeqSum(weighted_scores), Len(weighted_scores))

max_penalty_hundredths == 30
ideal_frequency_max == 3

\* min(0.3, cv * 0.5), in hundredths; 0.3 for a zero mean
_calculate_consistency_penalty(values) ==
    IF Len(values) < 2 THEN 0
    ELSE IF SeqSum(values) = 0 THEN max_penalty_hundredths
    ELSE Min2(max_penalty_hundredths, np_cv(values) \div 2)

\* the score before the penalty, as a rational; ideal_frequency_min is 1/2
frequency_base_score(daily_frequencies) ==
    LET total == SeqSum(daily_frequencies)
        days == Len(daily_frequencies)
    IN  IF days <= 2 * total /\ total <= ideal_frequency_max * days THEN <<100, 1>>
        ELSE IF 2 * total < days THEN <<Max2(0, 200 * total), days>>
        ELSE <<Max2(0, 100 * (2 * ideal_frequency_max * days - total)),
               ideal_frequency_max * days>>

\* a penalty that is added instead of taken off
penalised_Added(base, penalty) ==
    RoundDiv(base[1] * (Scale + penalty) * 100, base[2] * Scale)

\* base * (1 - penalty), rounded to hundredths
penalised(base, penalty) ==
    RoundDiv(base[1] * (Scale - penalty) * 100, base[2] * Scale)

calculate_frequency_score(daily_frequencies) ==
    IF daily_frequencies = <<>> THEN 0
    ELSE penalised(frequency_base_score(daily_frequencies),
                   IF Len(daily_frequencies) > 1
                   THEN _calculate_consistency_penalty(daily_frequencies) ELSE 0)

\* max(0, 100 * (10 - avg_pain) / 9), less min(0.3, std / 10)
calculate_pain_score(pain_scores) ==
    IF pain_scores = <<>> THEN 100 * 100
    ELSE penalised(<<Max2(0, 100 * (10 * Len(pain_scores) - SeqSum(pain_scores))),
                     9 * Len(pain_scores)>>,
                   IF Len(pain_scores) > 1
                   THEN Min2(max_penalty_hundredths, np_std(pain_scores) \div 10)
                   ELSE 0)

\* round(max(0, min(100, (avg - 1) * 100 / 9)), 2)
calculate_satisfaction_score(satisfaction_scores) ==
    IF satisfaction_scores = <<>> THEN 50 * 100
    ELSE LET n == Len(satisfaction_scores)
             num == 100 * (SeqSum(satisfaction_scores) - n)
         IN  IF num <= 0 THEN 0
             ELSE IF num >= 100 * 9 * n THEN 100 * 100
             ELSE RoundDiv(100 * num, 9 * n)

\* the default weights 0.4, 0.3, 0.2, 0.1, in tenths
weighted_overall(bristol_score, frequency_score, pain_score, satisfaction_score) ==
    [overall_score |-> RoundDiv(4 * bristol_score + 3 * frequency_score
                                + 2 * pain_score + 1 * satisfaction_score, 10),
     bristol_score |-> bristol_score,
     frequency_score |-> frequency_score,
     pain_score |-> pain_score,
     satisfaction_score |-> satisfaction_score]

calculate_overall_health_score(bristol_types, daily_frequencies, pain_scores, satisfaction_scores) ==
    weighted_overall(calculate_bristol_health_score(bristol_types),
                     calculate_frequency_score(daily_frequencies),
                     calculate_pain_score(pain_scores),
                     calculate_satisfaction_score(satisfaction_scores))

_calculate_daily_frequencies(bowel_movements) ==
    counts_per_date(bowel_movements, FirstDates(bowel_movements))

bristol_improvement_tenths == 3
pain_improvement_tenths == 10
composite_trend_min_len == 14

_assess_bristol_trend(historical_avg, recent_avg) ==
    LET historical_distance == distance_from_ideal(historical_avg)
        recent_distance == distance_from_ideal(recent_avg)
    IN  IF BelowBy(recent_distance, historical_distance, bristol_improvement_tenths)
        THEN "improving"
        ELSE IF AboveBy(recent_distance, historical_distance, bristol_improvement_tenths)
        THEN "declining"
        ELSE "stable"

_assess_pain_trend(historical_pain, recent_pain) ==
    IF historical_pain = <<>> \/ recent_pain = <<>> THEN "stable"
    ELSE LET historical_avg == Mean(historical_pain)
             recent_avg == Mean(recent_pain)
         IN  IF BelowBy(recent_avg, historical_avg, pain_improvement_tenths)
             THEN "improving"
             ELSE IF AboveBy(recent_avg, historical_avg, pain_improvement_tenths)
             THEN "declining"
             ELSE "stable"

\* sorted(bowel_movements, key=lambda x: x.created_at): a stable sort
RECURSIVE InsertByTime(_, _)
InsertByTime(bm, sorted_tail) ==
    IF sorted_tail = <<>> THEN <<bm>>
    ELSE IF bm.created_at <= sorted_tail[1].created_at THEN <<bm>> \o sorted_tail
    ELSE <<sorted_tail[1]>> \o InsertByTime(bm, Tail(sorted_tail))

RECURSIVE sorted_by_created_at(_)
sorted_by_created_at(bms) ==
    IF bms = <<>> THEN <<>>
    ELSE InsertByTime(bms[1], sorted_by_created_at(Tail(bms)))

\* a combination that lets an improving Bristol trend win over declining pain
combine_trends_BristolWins(bristol_trend, pain_trend) ==
    IF bristol_trend = "improving" THEN "improving"
    ELSE IF bristol_trend = "declining" \/ pain_trend = "declining" THEN "declining"
    ELSE "stable"

combine_trends(bristol_trend, pain_trend) ==
    IF bristol_trend = "improving" /\ pain_trend # "declining" THEN "improving"
    ELSE IF bristol_trend = "declining" \/ pain_trend = "declining" THEN "declining"
    ELSE "stable"

_calculate_trend(bowel_movements) ==
    IF Len(bowel_movements) < composite_trend_min_len THEN "stable"
    ELSE LET sorted_movements == sorted_by_created_at(bowel_movements)
             midpoint == Len(sorted_movements) \div 2
             historical == SubSeq(sorted_movements, 1, midpoint)
             recent == SubSeq(sorted_movements, midpoint + 1, Len(sorted_movements))
             bristol_trend == _assess_bristol_trend(Mean(bristol_of(historical)),
                                                    Mean(bristol_of(recent)))
             pain_trend == _assess_pain_trend(pain_of(historical), pain_of(recent))
         IN  combine_trends(bristol_trend, pain_trend)

\* the HealthScore built from the component scores and the trend
HealthScore(scores, trend) ==
    [overall_score |-> scores.overall_score,
     bristol_score |-> scores.bristol_score,
     frequency_score |-> scores.frequency_score,
     pain_score |-> scores.pain_score,
     satisfaction_score |-> scores.satisfaction_score,
     trend |-> trend]

\* a score that computes the components of an empty list like any other
calculate_health_score_NoFloor(bowel_movements) ==
    HealthScore(
        calculate_overall_health_score(
            bristol_of(bowel_movements),
            _calculate_daily_frequencies(bowel_movements),
            pain_of(bowel_movements),
            satisfaction_of(bowel_movements)),
        _calculate_trend(bowel_movements))

calculate_health_score(bowel_movements) ==
    IF bowel_movements = <<>>
    THEN [overall_score |-> 0, bristol_score |-> 0, frequency_score |-> 0,
          pain_score |-> 100 * 100, satisfaction_score |-> 50 * 100,
          trend |-> "stable"]
    ELSE HealthScore(
             calculate_overall_health_score(
                 bristol_of(bowel_movements),
                 _calculate_daily_frequencies(bowel_movements),
                 pain_of(bowel_movements),
                 satisfaction_of(bowel_movements)),
             _calculate_trend(bowel_movements))

----------------------------------------------------------------------------
(* RecommenderService (services/recommender.py): a recommendation is its   *)
(* title and priority, a risk factor its name and severity.                *)
(* Ratios are compared by cross-multiplication: c/n > t/10 iff 10c > tn.   *)

CountWhere(xs, P(_)) == Cardinality({i \in DOMAIN xs : P(xs[i])})

_generate_bristol_recommendations(bowel_movements) ==
    LET bristol_types == bristol_of(bowel_movements)
        n == Len(bristol_types)
        IsConstipation(bt) == bt <= 2
        IsDiarrhea(bt) == bt >= 6
        constipation == CountWhere(bristol_types, IsConstipation)
        diarrhea == CountWhere(bristol_types, IsDiarrhea)
    IN  IF n = 0 THEN <<>>
        ELSE (IF 10 * constipation > 3 * n
              THEN <<[title |-> "Increase Fiber Intake",
                      priority |-> IF 10 * constipation > 6 * n
                                   THEN "high" ELSE "medium"]>>
              ELSE <<>>)
          \o (IF 10 * diarrhea > 2 * n
              THEN <<[title |-> "Follow BRAT Diet",
                      priority |-> IF 10 * diarrhea > 5 * n
                                   THEN "high" ELSE "medium"]>>
              ELSE <<>>)

\* avg_daily and regularity_score as the recommender reads them
avg_daily_of(analysis_result) == analysis_result.patterns.frequency.avg_daily
regularity_of(analysis_result) == analysis_result.patterns.timing.regularity_score

low_frequency == <<1, 2>>
high_frequency == 3
high_pain == 7
irregular_timing_hundredths == 30

_generate_frequency_recommendations(analysis_result) ==
    IF RLt(avg_daily_of(analysis_result), low_frequency)
    THEN <<[title |-> "Establish Regular Bathroom Routine", priority |-> "medium"]>>
    ELSE IF RGt(avg_daily_of(analysis_result), RInt(high_frequency))
    THEN <<[title |-> "Monitor Frequent Bowel Movements", priority |-> "medium"]>>
    ELSE <<>>

\* the number of pain scores above 7
high_pain_count(pain_scores) ==
    Cardinality({i \in DOMAIN pain_scores : pain_scores[i] > high_pain})

pain_recommendations(pain_scores, n) ==
    IF n = 0 THEN <<>>
    ELSE (IF SeqSum(pain_scores) > 5 * n
          THEN <<[title |-> "Address Bowel Movement Pain",
                  priority |-> IF SeqSum(pain_scores) > high_pain * n
                               THEN "high" ELSE "medium"]>>
          ELSE <<>>)
      \o (IF 10 * high_pain_count(pain_scores) > 3 * n
          THEN <<[title |-> "Stress Reduction Techniques", priority |-> "medium"]>>
          ELSE <<>>)

_generate_pain_recommendations(bowel_movements) ==
    pain_recommendations(pain_of(bowel_movements), Len(pain_of(bowel_movements)))

\* correlations.get("meals", {}).get(..., []): no lists without correlations
food_list(meal_correlations, trigger) ==
    IF meal_correlations = <<>> THEN <<>>
    ELSE IF trigger THEN meal_correlations.trigger_foods
    ELSE meal_correlations.beneficial_foods

\* str.title() of a food type
title_of(food_type) ==
    CASE food_type = "spicy" -> "Spicy"
      [] food_type = "dairy" -> "Dairy"
      [] food_type = "gluten" -> "Gluten"
      [] OTHER -> "Fiber_Rich"

\* f"Limit {type.title()} Foods" and f"Include More {type.title()} Foods"
limit_title(food) ==
    CASE food = "Spicy" -> "Limit Spicy Foods"
      [] food = "Dairy" -> "Limit Dairy Foods"
      [] food = "Gluten" -> "Limit Gluten Foods"
      [] OTHER -> "Limit Fiber_Rich Foods"

include_title(food) ==
    CASE food = "Spicy" -> "Include More Spicy Foods"
      [] food = "Dairy" -> "Include More Dairy Foods"
      [] food = "Gluten" -> "Include More Gluten Foods"
      [] OTHER -> "Include More Fiber_Rich Foods"

\* a rule that limits every trigger food, whatever its severity
meal_recommendations_AnySeverity(trigger_foods, beneficial_foods) ==
    [i \in DOMAIN trigger_foods |->
        [title |-> limit_title(title_of(trigger_foods[i].type)), priority |-> "medium"]]
    \o [i \in DOMAIN beneficial_foods |->
          [title |-> include_title(title_of(beneficial_foods[i].type)),
           priority |-> "low"]]

meal_recommendations(trigger_foods, beneficial_foods) ==
    LET IsHigh(trigger) == trigger.severity = "high"
        limited == SelectSeq(trigger_foods, IsHigh)
    IN  [i \in DOMAIN limited |->
            [title |-> limit_title(title_of(limited[i].type)), priority |-> "medium"]]
        \o [i \in DOMAIN beneficial_foods |->
              [title |-> include_title(title_of(beneficial_foods[i].type)),
               priority |-> "low"]]

_generate_meal_recommendations(analysis_result) ==
    meal_recommendations(food_list(analysis_result.correlations.meals, TRUE),
                         food_list(analysis_result.correlations.meals, FALSE))

_generate_timing_recommendations(analysis_result) ==
    IF regularity_of(analysis_result) < irregular_timing_hundredths
    THEN <<[title |-> "Improve Schedule Regularity", priority |-> "medium"]>>
    ELSE <<>>

_get_priority_weight(priority) ==
    CASE priority = "urgent" -> 4
      [] priority = "high" -> 3
      [] priority = "medium" -> 2
      [] priority = "low" -> 1
      [] OTHER -> 1

RECURSIVE by_weight_from(_, _, _)
\* the elements of weight w, then w + step, ... in their order in the list
by_weight_from(recommendations, w, step) ==
    IF w < 1 \/ w > 4 THEN <<>>
    ELSE LET HasWeight(r) == _get_priority_weight(r.priority) = w
         IN  SelectSeq(recommendations, HasWeight)
             \o by_weight_from(recommendations, w + step, step)

\* a sort that puts the lowest priority first
sort_by_priority_Ascending(recommendations) == by_weight_from(recommendations, 1, 1)

\* recommendations.sort(key=weight, reverse=True): stable, highest first
sort_by_priority(recommendations) == by_weight_from(recommendations, 4, -1)

max_recommendations == 10

\* a truncation to the first three
top_recommendations_TopThree(sorted) == SubSeq(sorted, 1, Min2(3, Len(sorted)))

top_recommendations(sorted) == SubSeq(sorted, 1, Min2(max_recommendations, Len(sorted)))

\* the recommendations of the five rule groups, in the order of the calls
generated_recommendations(analysis_result, bowel_movements, meals) ==
    _generate_bristol_recommendations(bowel_movements)
    \o _generate_frequency_recommendations(analysis_result)
    \o _generate_pain_recommendations(bowel_movements)
    \o (IF Truthy(meals) THEN _generate_meal_recommendations(analysis_result) ELSE <<>>)
    \o _generate_timing_recommendations(analysis_result)

generate_recommendations(analysis_result, bowel_movements, meals) ==
    top_recommendations(
        sort_by_priority(generated_recommendations(analysis_result, bowel_movements, meals)))

\* a rule group that knows the diarrhea risk only
bristol_risks_DiarrheaOnly(constipation, diarrhea, n) ==
    IF n > 0 /\ 10 * diarrhea > 3 * n
    THEN <<[factor |-> "chronic_diarrhea",
            severity |-> IF 10 * diarrhea > 5 * n THEN "high" ELSE "medium"]>>
    ELSE <<>>

bristol_risks(constipation, diarrhea, n) ==
    IF n = 0 THEN <<>>
    ELSE (IF 10 * constipation > 5 * n
          THEN <<[factor |-> "chronic_constipation",
                  severity |-> IF 10 * constipation > 7 * n THEN "high" ELSE "medium"]>>
          ELSE <<>>)
      \o (IF 10 * diarrhea > 3 * n
          THEN <<[factor |-> "chronic_diarrhea",
                  severity |-> IF 10 * diarrhea > 5 * n THEN "high" ELSE "medium"]>>
          ELSE <<>>)

_identify_bristol_risks(bowel_movements) ==
    bristol_risks(Cardinality({i \in DOMAIN bowel_movements :
                                  bowel_movements[i].bristol_type <= 2}),
                  Cardinality({i \in DOMAIN bowel_movements :
                                  bowel_movements[i].bristol_type >= 6}),
                  Len(bowel_movements))

very_low_frequency == <<3, 10>>
very_high_frequency == 5
very_irregular_timing_hundredths == 20

_identify_frequency_risks(analysis_result) ==
    IF RLt(avg_daily_of(analysis_result), very_low_frequency)
    THEN <<[factor |-> "severe_constipation", severity |-> "high"]>>
    ELSE IF RGt(avg_daily_of(analysis_result), RInt(very_high_frequency))
    THEN <<[factor |-> "excessive_frequency", severity |-> "medium"]>>
    ELSE <<>>

pain_risks(pain_scores, n) ==
    IF n > 0 /\ 10 * high_pain_count(pain_scores) > 3 * n
    THEN <<[factor |-> "frequent_severe_pain", severity |-> "high"]>>
    ELSE <<>>

_identify_pain_risks(bowel_movements) ==
    pain_risks(pain_of(bowel_movements), Len(pain_of(bowel_movements)))

_identify_pattern_risks(analysis_result) ==
    IF regularity_of(analysis_result) < very_irregular_timing_hundredths
    THEN <<[factor |-> "highly_irregular_pattern", severity |-> "medium"]>>
    ELSE <<>>

identify_risk_factors(bowel_movements, analysis_result) ==
    _identify_bristol_risks(bowel_movements)
    \o _identify_frequency_risks(analysis_result)
    \o _identify_pain_risks(bowel_movements)
    \o _identify_pattern_risks(analysis_result)

----------------------------------------------------------------------------
(* PatternDetectorService (services/pattern_detector.py): meal patterns *)

detector_min_movements == 5
detector_min_related == 3
detector_spicy_threshold == 6
detector_trigger_pain == 6
detector_beneficial_pain == 3

\* [m for m in meals if m.<flag>]: None and False are both falsy
meal_group(meals, food_type) ==
    LET IsSpicy(m) == ~IsNone(m.spicy_level) /\ Val(m.spicy_level) > detector_spicy_threshold
        IsDairy(m) == m.dairy = Some(TRUE)
        IsGluten(m) == m.gluten = Some(TRUE)
        IsFiber(m) == m.fiber_rich = Some(TRUE)
    IN  CASE food_type = "spicy" -> SelectSeq(meals, IsSpicy)
          [] food_type = "dairy" -> SelectSeq(meals, IsDairy)
          [] food_type = "gluten" -> SelectSeq(meals, IsGluten)
          [] OTHER -> SelectSeq(meals, IsFiber)

\* the records 6 to 48 hours after the meals of a group, meal by meal
related_movements(bowel_movements, type_meals) ==
    Flatten([i \in DOMAIN type_meals |-> related_bms(bowel_movements, type_meals[i])])

\* "trigger_food", "beneficial_food" or ""; avg_pain is None without pain scores
detector_class(avg_bristol, pain_scores) ==
    IF \/ RLe(avg_bristol, RInt(trigger_low_bristol))
       \/ RGe(avg_bristol, RInt(trigger_high_bristol))
       \/ (pain_scores # <<>> /\ RGt(Mean(pain_scores), RInt(detector_trigger_pain)))
    THEN "trigger_food"
    ELSE IF /\ RLe(RInt(ideal_low), avg_bristol)
            /\ RLe(avg_bristol, RInt(ideal_high))
            /\ (pain_scores = <<>> \/ RLe(Mean(pain_scores), RInt(detector_beneficial_pain)))
    THEN "beneficial_food"
    ELSE ""

\* a classification that takes any non-empty sample
detector_pattern_AnySample(food_type, related) ==
    IF related = <<>> THEN [food_type |-> food_type, type |-> "", sample_size |-> 0]
    ELSE [food_type |-> food_type,
          type |-> detector_class(Mean(bristol_of(related)), pain_of(related)),
          sample_size |-> Len(related)]

\* the outcome for one food group; sample_size 0 marks a group without
\* correlation
detector_pattern(food_type, related) ==
    IF Len(related) < detector_min_related
    THEN [food_type |-> food_type, type |-> "", sample_size |-> 0]
    ELSE [food_type |-> food_type,
          type |-> detector_class(Mean(bristol_of(related)), pain_of(related)),
          sample_size |-> Len(related)]

detector_result(outcomes) ==
    LET IsPattern(o) == o.type # ""
        patterns == SelectSeq(outcomes, IsPattern)
    IN  [detected_patterns |->
             [i \in DOMAIN patterns |->
                 [type |-> patterns[i].type, food_type |-> patterns[i].food_type]],
         food_correlations |->
             {outcomes[i].food_type : i \in {j \in DOMAIN outcomes :
                                                outcomes[j].sample_size > 0}}]

_detect_meal_patterns(bowel_movements, meals) ==
    IF meals = <<>> \/ Len(bowel_movements) < detector_min_movements THEN None
    ELSE Some(detector_result(
             [i \in DOMAIN food_types |->
                 detector_pattern(food_types[i],
                                  related_movements(bowel_movements,
                                                    meal_group(meals, food_types[i])))]))

----------------------------------------------------------------------------
(* The stand-alone entry point main.py: perform_comprehensive_analysis     *)

\* the same counts, percentages and indicator, without a trend
legacy_summary(summary) ==
    [distribution |-> summary.distribution,
     percentages |-> summary.percentages,
     most_common |-> summary.most_common,
     health_indicator |-> summary.health_indicator]

legacy_analyze_bristol_patterns(df) ==
    legacy_summary(bristol_summary(value_counts(bristol_of(df)), Len(df), None))

\* per category (None is a key too) the mean over the pooled related entries
legacy_analyze_meal_correlations(entries_df, meals_df) ==
    LET HasRelated(meal) == related_bms(entries_df, meal) # <<>>
        qualifying == SelectSeq(meals_df, HasRelated)
        categories == {qualifying[i].category : i \in DOMAIN qualifying}
        Pooled(c) == LET Is(m) == m.category = c
                         ms == SelectSeq(qualifying, Is)
                     IN  Flatten([i \in DOMAIN ms |-> related_bms(entries_df, ms[i])])
    IN  [c \in categories |-> [avg_bristol |-> Mean(bristol_of(Pooled(c)))]]

legacy_generate_recommendations(entries_df) ==
    LET avg_bristol == Mean(bristol_of(entries_df))
    IN  IF RLt(avg_bristol, RInt(3)) THEN "constipated"
        ELSE IF RGt(avg_bristol, RInt(5)) THEN "loose"
        ELSE "healthy"

perform_comprehensive_analysis(entries_df, meals_df) ==
    [bristol_trends |-> legacy_analyze_bristol_patterns(entries_df),
     patterns |-> [frequency |-> frequency_counts(entries_df)],
     correlations |-> IF meals_df # <<>>
                      THEN legacy_analyze_meal_correlations(entries_df, meals_df)
                      ELSE <<>>,
     recommendations |-> legacy_generate_recommendations(entries_df)]

----------------------------------------------------------------------------
(* CacheManager (utils/cache.py) and the serialization of a report *)

cache_prefix == "poo_tracker"

\* the requests the handlers are driven with
T_meal == 8 * MinutesPerHour              \* a meal on day 0, 08:00
T_bm == T_meal + MinutesPerDay            \* a bowel movement 24 hours later
Now0 == 10 * MinutesPerDay                \* the wall clock at start-up

GoodBM == BM(T_bm, 4, Some(2), None, None)
SevereBM == BM(T_bm, 1, Some(9), None, None)
GoodMeal == Meal(T_meal, Some("dinner"), Some(8), Some(FALSE), Some(TRUE), Some(FALSE))
BareMeal == Meal(T_meal, None, None, None, None, None)

Requests ==
    << AnalysisRequest(<<>>, Some(<<>>), Some(<<>>), FALSE, FALSE),
       AnalysisRequest(<<GoodBM>>, Some(<<>>), Some(<<>>), TRUE, TRUE),
       AnalysisRequest(<<BM(T_bm, 9, None, None, None)>>, Some(<<>>), Some(<<>>), TRUE, TRUE),
       AnalysisRequest(<<GoodBM>>, Some(<<BareMeal>>), Some(<<>>), FALSE, TRUE),
       AnalysisRequest(<<GoodBM, BM(T_bm + 30, 1, None, None, None)>>, Some(<<GoodMeal>>),
                       Some(<<Symptom(T_bm, "bloating", 5)>>), TRUE, FALSE),
       AnalysisRequest(<<GoodBM>>, None, None, FALSE, FALSE),
       AnalysisRequest(<<SevereBM>>, Some(<<>>), Some(<<>>), FALSE, FALSE),
       AnalysisRequest(<<SevereBM>>, Some(<<>>), Some(<<>>), TRUE, FALSE),
       AnalysisRequest(<<SevereBM>>, Some(<<>>), Some(<<>>), FALSE, TRUE),
       AnalysisRequest(<<SevereBM>>, Some(<<>>), Some(<<>>), TRUE, TRUE) >>

RequestIds == DOMAIN Requests

\* one input under the four combinations of the flags, and the other requests
FlagRequestIds == {i \in RequestIds : Requests[i].entries = <<SevereBM>>}
MixedRequestIds == RequestIds \ FlagRequestIds

\* md5 of the serialized request: a digest that identifies the content
Digest(request) == CHOOSE i \in RequestIds : Requests[i] = request

\* a key that leaves the digest of the request out
generate_analysis_cache_key_NoDigest(request) ==
    [ns |-> cache_prefix, kind |-> "analysis", user |-> "", date |-> 0, digest |-> 0]

generate_analysis_cache_key(request) ==
    [ns |-> cache_prefix, kind |-> "analysis", user |-> "", date |-> 0,
     digest |-> Digest(request)]

\* f"analysis:{userId}:{YYYYMMDD}" of the stand-alone entry point
legacy_cache_key(request, clock) ==
    [ns |-> "", kind |-> "analysis", user |-> request.entries[1].user_id,
     date |-> date_of(clock), digest |-> 0]

\* json.dumps(value, default=str): a datetime becomes str(datetime);
\* json.loads gives the string back
JsonScalar(x) == IF x.type = "datetime" THEN DateText(" ", x.t) ELSE x
json_round_trip(body) ==
    [body EXCEPT !.analysis_metadata.data_period_start = JsonScalar(@),
                 !.analysis_metadata.data_period_end = JsonScalar(@)]

\* the HTTP layer's encoding of the response model: a datetime becomes ISO 8601
WireScalar(x) == IF x.type = "datetime" THEN DateText("T", x.t) ELSE x
wire_encode(body) ==
    [body EXCEPT !.analysis_metadata.data_period_start = WireScalar(@),
                 !.analysis_metadata.data_period_end = WireScalar(@)]

\* CacheManager.get: None without a client, on an error, or on a miss
cache_get(client, up, st, key) ==
    IF client = "None" THEN None
    ELSE IF ~up THEN None
    ELSE IF key \in DOMAIN st THEN Some(st[key]) ELSE None

\* CacheManager.set: the key space after the call (unchanged on failure)
cache_set(client, up, st, key, value) ==
    IF client = "None" \/ ~up THEN st
    ELSE [k \in DOMAIN st \cup {key} |-> IF k = key THEN value ELSE st[k]]

----------------------------------------------------------------------------
(* analyze_patterns of ai_service/main.py, step by step *)

NoBody == <<>>
NoReply == [status |-> 0, body |-> NoBody, cached |-> FALSE]
Reply(status, body, cached) == [status |-> status, body |-> body, cached |-> cached]

HTTP_200_OK == 200
HTTP_400_BAD_REQUEST == 400
HTTP_500_INTERNAL_SERVER_ERROR == 500

\* the AnalysisResponse built from the analysis result: extra fields
\* (health_score, predictions) are not fields of the model and are dropped
build_response(request, analysis_result) ==
    LET bowel_movements == request.entries
    IN  [patterns |-> analysis_result.patterns,
         correlations |-> analysis_result.correlations,
         bristol_trends |-> analysis_result.bristol_analysis,
         recommendations |-> IF request.include_recommendations
                             THEN generate_recommendations(
                                      analysis_result, bowel_movements,
                                      IF Truthy(request.meals) THEN request.meals ELSE None)
                             ELSE <<>>,
         risk_factors |-> IF request.include_recommendations
                          THEN identify_risk_factors(bowel_movements, analysis_result)
                          ELSE <<>>,
         analysis_metadata |-> analysis_result.metadata]

\* the analysis result of the request: meals if meals else None
service_analysis(request) ==
    analyze_comprehensive_patterns(
        request.entries,
        IF Truthy(request.meals) THEN request.meals ELSE None,
        IF Truthy(request.symptoms) THEN request.symptoms ELSE None)

\* the status codes the boolean-mask failure maps to: ValueError (400) when
\* the column mixes booleans and None; ValueError or KeyError (500),
\* depending on the pandas release, when the column holds only None
mask_error_statuses(request) ==
    LET meal_df == Val(request.meals)
        AllNone(col(_)) == \A i \in DOMAIN meal_df : IsNone(col(meal_df[i]))
        AnyNone(col(_)) == \E i \in DOMAIN meal_df : IsNone(col(meal_df[i]))
        Dairy(m) == m.dairy
        Gluten(m) == m.gluten
        Fiber(m) == m.fiber_rich
        first == IF AnyNone(Dairy) THEN AllNone(Dairy)
                 ELSE IF AnyNone(Gluten) THEN AllNone(Gluten)
                 ELSE AllNone(Fiber)
    IN  IF first THEN {HTTP_400_BAD_REQUEST, HTTP_500_INTERNAL_SERVER_ERROR}
        ELSE {HTTP_400_BAD_REQUEST}

\* the stand-alone entry point's MealData gives absent flags the default False
legacy_meals(request) ==
    LET Default(flag) == IF IsNone(flag) THEN Some(FALSE) ELSE flag
    IN  [i \in DOMAIN Val(request.meals) |->
            [Val(request.meals)[i] EXCEPT !.fiber_rich = Default(@),
                                          !.dairy = Default(@),
                                          !.gluten = Default(@)]]

Req(h) == Requests[req[h]]

SetHandler(h, newPc, newRan, newOut) ==
    /\ pc' = [pc EXCEPT ![h] = newPc]
    /\ ran' = [ran EXCEPT ![h] = newRan]
    /\ out' = [out EXCEPT ![h] = newOut]

Fail(h, status) == SetHandler(h, "done", ran[h], Reply(status, NoBody, FALSE))

\* a request arrives at one of the two entry points
Receive(h, i, v) ==
    /\ pc[h] = "idle"
    /\ v = "legacy" => ~IsNone(Requests[i].meals)
    /\ pc' = [pc EXCEPT ![h] = IF v = "service" THEN "validate" ELSE "legacy_analyze"]
    /\ req' = [req EXCEPT ![h] = i]
    /\ variant' = [variant EXCEPT ![h] = v]
    /\ ran' = [ran EXCEPT ![h] = {}]
    /\ out' = [out EXCEPT ![h] = NoReply]
    /\ UNCHANGED <<redis_client, redisUp, store, now, firstReply, call, ret>>

\* lines 197-204: the HTTPException(400) is raised inside the try block and
\* caught by `except Exception`, which answers 500
Validate(h) ==
    /\ pc[h] = "validate"
    /\ IF validate_analysis_request(Req(h), now) # {}
       THEN Fail(h, HTTP_500_INTERNAL_SERVER_ERROR)
       ELSE SetHandler(h, "lookup", ran[h], out[h])
    /\ UNCHANGED <<redis_client, redisUp, store, now, variant, req, firstReply, call, ret>>

\* lines 206-212
CacheLookup(h) ==
    /\ pc[h] = "lookup"
    /\ LET cache_key == generate_analysis_cache_key(Req(h))
           cached_result == cache_get(redis_client, redisUp, store, cache_key)
       IN  IF ~IsNone(cached_result)
           THEN SetHandler(h, "done", ran[h],
                           Reply(HTTP_200_OK, wire_encode(Val(cached_result)), TRUE))
           ELSE SetHandler(h, "analyze", ran[h], out[h])
    /\ UNCHANGED <<redis_client, redisUp, store, now, variant, req, firstReply, call, ret>>

\* an analysis step that caches its result as soon as it exists
Analyze_CachingEarly(h) ==
    /\ pc[h] = "analyze"
    /\ ~IsNone(Req(h).meals) /\ ~IsNone(Req(h).symptoms)
    /\ ~Raised(service_analysis(Req(h)))
    /\ store' = cache_set(redis_client, redisUp, store,
                          generate_analysis_cache_key(Req(h)),
                          service_analysis(Req(h)).value)
    /\ SetHandler(h, "score", ran[h] \cup {"analyzer"}, out[h])
    /\ UNCHANGED <<redis_client, redisUp, now, variant, req, firstReply, call, ret>>

\* lines 214-270: iterating request.meals or request.symptoms raises
\* TypeError when the field is None; then the analyzer runs
Analyze(h) ==
    /\ pc[h] = "analyze"
    /\ IF IsNone(Req(h).meals) \/ IsNone(Req(h).symptoms)
       THEN Fail(h, HTTP_500_INTERNAL_SERVER_ERROR)
       ELSE LET analysis_result == service_analysis(Req(h))
                invoked == ran[h] \cup {"analyzer"}
            IN  IF analysis_result.raised = "ValueError"
                THEN SetHandler(h, "done", invoked,
                                Reply(HTTP_400_BAD_REQUEST, NoBody, FALSE))
                ELSE IF analysis_result.raised = "MaskError"
                THEN \E status \in mask_error_statuses(Req(h)) :
                        SetHandler(h, "done", invoked, Reply(status, NoBody, FALSE))
                ELSE SetHandler(h, "score", invoked, out[h])
    /\ UNCHANGED <<redis_client, redisUp, store, now, variant, req, firstReply, call, ret>>

\* lines 272-278
Score(h) ==
    /\ pc[h] = "score"
    /\ SetHandler(h, "recommend",
                  IF Req(h).include_predictions
                  THEN ran[h] \cup {"health_score"} ELSE ran[h],
                  out[h])
    /\ UNCHANGED <<redis_client, redisUp, store, now, variant, req, firstReply, call, ret>>

\* lines 280-293
Recommend(h) ==
    /\ pc[h] = "recommend"
    /\ SetHandler(h, "store",
                  IF Req(h).include_recommendations
                  THEN ran[h] \cup {"recommendations"} ELSE ran[h],
                  out[h])
    /\ UNCHANGED <<redis_client, redisUp, store, now, variant, req, firstReply, call, ret>>

\* lines 295-313: build the response, cache it, return it
Store(h) ==
    /\ pc[h] = "store"
    /\ LET cache_key == generate_analysis_cache_key(Req(h))
           response == build_response(Req(h), service_analysis(Req(h)).value)
           written == cache_set(redis_client, redisUp, store, cache_key,
                                json_round_trip(response))
       IN  /\ store' = written
           /\ firstReply' =
                 IF redis_client = "client" /\ redisUp
                 THEN [k \in DOMAIN firstReply \cup {cache_key} |->
                          IF k = cache_key THEN wire_encode(response) ELSE firstReply[k]]
                 ELSE firstReply
           /\ SetHandler(h, "done",
                         IF redis_client = "client" /\ redisUp
                         THEN ran[h] \cup {"cache_write"} ELSE ran[h],
                         Reply(HTTP_200_OK, wire_encode(response), FALSE))
    /\ UNCHANGED <<redis_client, redisUp, now, variant, req, call, ret>>

\* main.py lines 85-100: the empty check raises HTTPException(400) inside the
\* try block, and `except Exception` answers 500; no validator runs
LegacyAnalyze(h) ==
    /\ pc[h] = "legacy_analyze"
    /\ IF Req(h).entries = <<>>
       THEN Fail(h, HTTP_500_INTERNAL_SERVER_ERROR)
       ELSE SetHandler(h, "legacy_store",
                       ran[h] \cup {"analyzer", "recommendations"}, out[h])
    /\ UNCHANGED <<redis_client, redisUp, store, now, variant, req, firstReply, call, ret>>

\* main.py lines 102-113: setex is not guarded; a Redis error answers 500
LegacyStore(h) ==
    /\ pc[h] = "legacy_store"
    /\ LET cache_key == legacy_cache_key(Req(h), now)
           analysis_result == perform_comprehensive_analysis(
                                  Req(h).entries, legacy_meals(Req(h)))
       IN  IF redisUp
           THEN /\ store' = [k \in DOMAIN store \cup {cache_key} |->
                                IF k = cache_key THEN analysis_result ELSE store[k]]
                /\ SetHandler(h, "done", ran[h] \cup {"cache_write"},
                              Reply(HTTP_200_OK, analysis_result, FALSE))
           ELSE /\ store' = store
                /\ Fail(h, HTTP_500_INTERNAL_SERVER_ERROR)
    /\ UNCHANGED <<redis_client, redisUp, now, variant, req, firstReply, call, ret>>

\* the caller goes away while the request is in flight
Abandon(h) ==
    /\ pc[h] \notin {"idle", "done", "abandoned"}
    /\ SetHandler(h, "abandoned", ran[h], NoReply)
    /\ UNCHANGED <<redis_client, redisUp, store, now, variant, req, firstReply, call, ret>>

\* the reply has been delivered; the worker is free again
Finish(h) ==
    /\ pc[h] \in {"done", "abandoned"}
    /\ pc' = [pc EXCEPT ![h] = "idle"]
    /\ req' = [req EXCEPT ![h] = 0]
    /\ variant' = [variant EXCEPT ![h] = "service"]
    /\ ran' = [ran EXCEPT ![h] = {}]
    /\ out' = [out EXCEPT ![h] = NoReply]
    /\ UNCHANGED <<redis_client, redisUp, store, now, firstReply, call, ret>>

\* the Redis server goes down or comes back
RedisFlip ==
    /\ redisUp' = ~redisUp
    /\ UNCHANGED <<redis_client, store, now, pc, variant, req, ran, out,
                   firstReply, call, ret>>

\* the TTL of an entry runs out
Expire(k) ==
    /\ k \in DOMAIN store
    /\ store' = [j \in DOMAIN store \ {k} |-> store[j]]
    /\ firstReply' = [j \in DOMAIN firstReply \ {k} |-> firstReply[j]]
    /\ UNCHANGED <<redis_client, redisUp, now, pc, variant, req, ran, out, call, ret>>

NoCall == [fn |-> "none"]
NotReturned == [raised |-> "pending"]

Init ==
    /\ redis_client \in {"client", "None"}
    /\ redisUp = TRUE
    /\ store = <<>>
    /\ now = Now0
    /\ pc = [h \in Handlers |-> "idle"]
    /\ variant = [h \in Handlers |-> "service"]
    /\ req = [h \in Handlers |-> 0]
    /\ ran = [h \in Handlers |-> {}]
    /\ out = [h \in Handlers |-> NoReply]
    /\ firstReply = <<>>
    /\ call = NoCall
    /\ ret = NotReturned

Next ==
    \/ \E h \in Handlers, i \in MixedRequestIds, v \in {"service", "legacy"} :
          Receive(h, i, v)
    \/ \E h \in Handlers : Validate(h)
    \/ \E h \in Handlers : CacheLookup(h)
    \/ \E h \in Handlers : Analyze(h)
    \/ \E h \in Handlers : Score(h)
    \/ \E h \in Handlers : Recommend(h)
    \/ \E h \in Handlers : Store(h)
    \/ \E h \in Handlers : LegacyAnalyze(h)
    \/ \E h \in Handlers : LegacyStore(h)
    \/ \E h \in Handlers : Abandon(h)
    \/ \E h \in Handlers : Finish(h)
    \/ RedisFlip
    \/ \E k \in DOMAIN store : Expire(k)

Spec == Init /\ [][Next]_vars

\* the packaged service alone, asked for one input under every combination
\* of the two flags
NextFlags ==
    \/ \E h \in Handlers, i \in FlagRequestIds : Receive(h, i, "service")
    \/ \E h \in Handlers : Validate(h)
    \/ \E h \in Handlers : CacheLookup(h)
    \/ \E h \in Handlers : Analyze(h)
    \/ \E h \in Handlers : Score(h)
    \/ \E h \in Handlers : Recommend(h)
    \/ \E h \in Handlers : Store(h)
    \/ \E h \in Handlers : Finish(h)
    \/ \E k \in DOMAIN store : Expire(k)

SpecFlags == Init /\ [][NextFlags]_vars

----------------------------------------------------------------------------
(* Two concurrent requests to the packaged service: the workers suspend at  *)
(* the cache lookup and at the cache write, so the steps of one request     *)
(* interleave with those of the other.                                      *)

Callers == {1, 2}

\* two inputs with both flags set, and one with meals and symptoms
ConcurrentRequestIds == {2, 5, 10}

InitConcurrent ==
    /\ redis_client \in {"client", "None"}
    /\ redisUp = TRUE
    /\ store = <<>>
    /\ now = Now0
    /\ pc = [h \in Callers |-> "idle"]
    /\ variant = [h \in Callers |-> "service"]
    /\ req = [h \in Callers |-> 0]
    /\ ran = [h \in Callers |-> {}]
    /\ out = [h \in Callers |-> NoReply]
    /\ firstReply = <<>>
    /\ call = NoCall
    /\ ret = NotReturned

NextConcurrent ==
    \/ \E h \in Callers, i \in ConcurrentRequestIds : Receive(h, i, "service")
    \/ \E h \in Callers : Validate(h)
    \/ \E h \in Callers : CacheLookup(h)
    \/ \E h \in Callers : Analyze(h)
    \/ \E h \in Callers : Score(h)
    \/ \E h \in Callers : Recommend(h)
    \/ \E h \in Callers : Store(h)
    \/ \E h \in Callers : Finish(h)
    \/ \E k \in DOMAIN store : Expire(k)

SpecConcurrent == InitConcurrent /\ [][NextConcurrent]_vars

----------------------------------------------------------------------------

(* Direct calls of the analysis core on small inputs, in and out of range, *)
(* with optional fields present and absent, and with records on and next   *)
(* to the borders of the digestion window.                                 *)

MaxCoreRecords == 2     \* health records of a direct call

CoreOffsets ==
    {timedelta_hours(digestion_window_start_hours) - 1,
     timedelta_hours(digestion_window_start_hours),
     timedelta_hours(digestion_window_end_hours),
     timedelta_hours(digestion_window_end_hours) + 1}

\* <<bristol_type, pain>>: in range, and out of range
CoreScales == {<<4, None>>, <<4, Some(1)>>, <<9, None>>, <<4, Some(11)>>}

CoreBMValues ==
    {BM(T_meal + off, sc[1], sc[2], None, None) : off \in CoreOffsets, sc \in CoreScales}

CoreBMLists ==
    UNION {[1..n -> CoreBMValues] : n \in 1..MaxCoreRecords}

CoreMealValues ==
    {Meal(T_meal, cat, spicy, Some(TRUE), dairy, Some(TRUE)) :
        cat \in {None, Some("dinner")},
        spicy \in {None, Some(8)},
        dairy \in {None, Some(TRUE), Some(FALSE)}}

CoreMealLists ==
    {None, Some(<<GoodMeal, BareMeal>>)} \cup {Some(<<m>>) : m \in CoreMealValues}

CoreSymptomLists ==
    {None, Some(<<Symptom(T_bm, "bloating", 5)>>), Some(<<Symptom(T_bm, "cramps", 11)>>),
     Some(<<Symptom(T_bm, "bloating", 5), Symptom(Now0, "gas", 2),
            Symptom(T_bm + 1, "bloating", 3)>>)}

InitCore ==
    /\ redis_client = "client"
    /\ redisUp = TRUE
    /\ store = <<>>
    /\ now = Now0
    /\ pc = [h \in Handlers |-> "idle"]
    /\ variant = [h \in Handlers |-> "service"]
    /\ req = [h \in Handlers |-> 0]
    /\ ran = [h \in Handlers |-> {}]
    /\ out = [h \in Handlers |-> NoReply]
    /\ firstReply = <<>>
    /\ \/ \E bms \in CoreBMLists, ms \in CoreMealLists, sys \in CoreSymptomLists :
             call = [fn |-> "analyze_comprehensive_patterns",
                     bowel_movements |-> bms, meals |-> ms, symptoms |-> sys]
       \/ \E bms \in CoreBMLists :
             call = [fn |-> "calculate_health_score",
                     bowel_movements |-> bms, meals |-> None, symptoms |-> None]
    /\ ret = NotReturned

CallAnalyzer ==
    /\ call.fn = "analyze_comprehensive_patterns"
    /\ ret = NotReturned
    /\ ret' = analyze_comprehensive_patterns(call.bowel_movements, call.meals, call.symptoms)
    /\ UNCHANGED <<svcVars, call>>

CallHealthScore ==
    /\ call.fn = "calculate_health_score"
    /\ ret = NotReturned
    /\ ret' = Return(calculate_health_score(call.bowel_movements))
    /\ UNCHANGED <<svcVars, call>>

NextCore == CallAnalyzer \/ CallHealthScore

SpecCore == InitCore /\ [][NextCore]_vars

----------------------------------------------------------------------------
(* Direct calls of the health score and of the analysis on in-range record  *)
(* lists of up to three blocks: the records of a block are equal but for    *)
(* their day, which is the same for the whole block or a new one for each.  *)

MaxScoreBlock == 4      \* records per block

\* <<bristol_type, pain, satisfaction, hour>>
ScoreKinds == {<<4, None, None, 8>>,
               <<4, Some(1), Some(8), 8>>,
               <<1, Some(10), Some(1), 0>>,
               <<7, Some(1), Some(10), 23>>}

\* the i-th record of block j (j from 0)
ScoreRecord(j, i, kind, spread) ==
    BM((j * (MaxScoreBlock + 1) + (IF spread THEN i - 1 ELSE 0)) * MinutesPerDay
           + kind[4] * MinutesPerHour,
       kind[1], kind[2], None, kind[3])

\* a meal of every food group, a day before the first block
ScoreMeal == Meal(0 - MinutesPerDay, Some("dinner"), Some(8),
                  Some(TRUE), Some(TRUE), Some(TRUE))

ScoreBlock(j, k, kind, spread) == [i \in 1..k |-> ScoreRecord(j, i, kind, spread)]

InitScore ==
    /\ redis_client = "client"
    /\ redisUp = TRUE
    /\ store = <<>>
    /\ now = Now0
    /\ pc = [h \in Handlers |-> "idle"]
    /\ variant = [h \in Handlers |-> "service"]
    /\ req = [h \in Handlers |-> 0]
    /\ ran = [h \in Handlers |-> {}]
    /\ out = [h \in Handlers |-> NoReply]
    /\ firstReply = <<>>
    /\ \E k1 \in 0..MaxScoreBlock, k2 \in 0..MaxScoreBlock, k3 \in 0..MaxScoreBlock,
          kind1 \in ScoreKinds, kind2 \in ScoreKinds, kind3 \in ScoreKinds,
          s1 \in BOOLEAN, s2 \in BOOLEAN, s3 \in BOOLEAN,
          fn \in {"analyze_comprehensive_patterns", "calculate_health_score",
                  "generate_recommendations", "identify_risk_factors"},
          meals \in {None, Some(<<ScoreMeal>>)} :
          /\ ~IsNone(meals) => fn = "generate_recommendations"
          /\ call = [fn |-> fn,
                     bowel_movements |-> ScoreBlock(0, k1, kind1, s1)
                                         \o ScoreBlock(1, k2, kind2, s2)
                                         \o ScoreBlock(2, k3, kind3, s3),
                     meals |-> meals, symptoms |-> None]
    /\ ret = NotReturned

\* the recommendations for an analysis, as the request handler asks for them
recommendations_for(analysis_result, bowel_movements, meals) ==
    IF Raised(analysis_result) THEN analysis_result
    ELSE Return(generate_recommendations(analysis_result.value, bowel_movements, meals))

CallRecommendations ==
    /\ call.fn = "generate_recommendations"
    /\ ret = NotReturned
    /\ ret' = recommendations_for(
                  analyze_comprehensive_patterns(call.bowel_movements, call.meals,
                                                 call.symptoms),
                  call.bowel_movements, call.meals)
    /\ UNCHANGED <<svcVars, call>>

\* the risk factors for an analysis, as the request handler asks for them
risk_factors_for(analysis_result, bowel_movements) ==
    IF Raised(analysis_result) THEN analysis_result
    ELSE Return(identify_risk_factors(bowel_movements, analysis_result.value))

CallRiskFactors ==
    /\ call.fn = "identify_risk_factors"
    /\ ret = NotReturned
    /\ ret' = risk_factors_for(
                  analyze_comprehensive_patterns(call.bowel_movements, call.meals,
                                                 call.symptoms),
                  call.bowel_movements)
    /\ UNCHANGED <<svcVars, call>>

NextScore == NextCore \/ CallRecommendations \/ CallRiskFactors

SpecScore == InitScore /\ [][NextScore]_vars

----------------------------------------------------------------------------
(* Direct calls of the two food classifications, the analyzer's and the    *)
(* pattern detector's, on one meal with some records inside its digestion  *)
(* window and some before the meal.                                        *)

MaxInWindow == 3        \* records inside the digestion window
MaxOutside == 5         \* records before the meal

\* <<bristol_type, pain>> of the records inside the window
FoodKinds == {<<4, Some(1)>>, <<4, None>>, <<4, Some(3)>>, <<4, Some(6)>>, <<1, Some(8)>>}

\* i-th record inside the window: 24 hours after the meal, and later
InsideRecord(i, kind) ==
    BM(T_bm + (i - 1) * MinutesPerHour, kind[1], kind[2], None, None)

\* i-th record outside: i days before the meal
OutsideRecord(i) == BM(T_meal - i * MinutesPerDay, 4, None, None, None)

FoodMeals ==
    {Meal(T_meal, None, spicy, Some(fiber), Some(dairy), Some(gluten)) :
        spicy \in {None, Some(6), Some(7)}, fiber \in BOOLEAN,
        dairy \in BOOLEAN, gluten \in BOOLEAN}

InitFood ==
    /\ redis_client = "client"
    /\ redisUp = TRUE
    /\ store = <<>>
    /\ now = Now0
    /\ pc = [h \in Handlers |-> "idle"]
    /\ variant = [h \in Handlers |-> "service"]
    /\ req = [h \in Handlers |-> 0]
    /\ ran = [h \in Handlers |-> {}]
    /\ out = [h \in Handlers |-> NoReply]
    /\ firstReply = <<>>
    /\ \E n_in \in 0..MaxInWindow, n_out \in 0..MaxOutside, kind \in FoodKinds,
          meal \in FoodMeals,
          fn \in {"analyze_comprehensive_patterns", "_detect_meal_patterns"} :
          /\ n_in + n_out > 0
          /\ call = [fn |-> fn,
                     bowel_movements |-> [i \in 1..n_out |-> OutsideRecord(i)]
                                         \o [i \in 1..n_in |-> InsideRecord(i, kind)],
                     meals |-> Some(<<meal>>), symptoms |-> None]
    /\ ret = NotReturned

CallDetectMealPatterns ==
    /\ call.fn = "_detect_meal_patterns"
    /\ ret = NotReturned
    /\ ret' = Return(_detect_meal_patterns(call.bowel_movements, ListOrEmpty(call.meals)))
    /\ UNCHANGED <<svcVars, call>>

NextFood == CallAnalyzer \/ CallDetectMealPatterns

SpecFood == InitFood /\ [][NextFood]_vars

----------------------------------------------------------------------------
(* Direct calls of the two distribution analyses on record lists that hold *)
(* every Bristol type a chosen number of times.                            *)

MaxPerType == 2         \* records of one Bristol type

RECURSIVE TypeList(_, _)
\* counts[t] times the type t, for t from `from` to 7
TypeList(counts, from) ==
    IF from > max_bristol_type THEN <<>>
    ELSE [i \in 1..counts[from] |-> from] \o TypeList(counts, from + 1)

DistRecords(counts) ==
    [i \in DOMAIN TypeList(counts, min_bristol_type) |->
        BM(i * HalfDay, TypeList(counts, min_bristol_type)[i], None, None, None)]

InitDist ==
    /\ redis_client = "client"
    /\ redisUp = TRUE
    /\ store = <<>>
    /\ now = Now0
    /\ pc = [h \in Handlers |-> "idle"]
    /\ variant = [h \in Handlers |-> "service"]
    /\ req = [h \in Handlers |-> 0]
    /\ ran = [h \in Handlers |-> {}]
    /\ out = [h \in Handlers |-> NoReply]
    /\ firstReply = <<>>
    /\ \E counts \in [min_bristol_type..max_bristol_type -> 0..MaxPerType],
          fn \in {"analyze_comprehensive_patterns", "analyze_bristol_patterns"} :
          /\ \E t \in DOMAIN counts : counts[t] > 0
          /\ call = [fn |-> fn, bowel_movements |-> DistRecords(counts),
                     meals |-> None, symptoms |-> None]
    /\ ret = NotReturned

\* the stand-alone entry point's analyze_bristol_patterns
CallLegacyBristolPatterns ==
    /\ call.fn = "analyze_bristol_patterns"
    /\ ret = NotReturned
    /\ ret' = Return([bristol_analysis |->
                          legacy_analyze_bristol_patterns(call.bowel_movements)])
    /\ UNCHANGED <<svcVars, call>>

NextDist == CallAnalyzer \/ CallLegacyBristolPatterns

SpecDist == InitDist /\ [][NextDist]_vars

----------------------------------------------------------------------------
(* Direct calls of the two meal correlations, the analyzer's and the        *)
(* stand-alone entry point's, on up to three meals of one category and      *)
(* records at, 24 hours after, 72 hours after and just over 72 hours after  *)
(* the middle meal time.                                                    *)

MaxMeals == 3           \* meals of a direct call

MealTimes == {T_meal - MinutesPerDay, T_meal, T_meal + timedelta_hours(30)}

\* the times a record may have, in increasing order
SlotTimes == <<T_meal, T_bm, T_meal + timedelta_hours(timing_window_hours),
               T_meal + timedelta_hours(timing_window_hours) + 1>>

\* <<bristol_type, pain>> of a record; <<>> leaves the slot empty
SlotKinds == {<<1, 8>>, <<4, 2>>}

DinnerAt(t) == Meal(t, Some("dinner"), None, Some(FALSE), Some(FALSE), Some(FALSE))

\* the records of the filled slots, in the order of their times
SlotRecords(choice) ==
    Flatten([i \in DOMAIN SlotTimes |->
                IF choice[i] = <<>> THEN <<>>
                ELSE <<BM(SlotTimes[i], choice[i][1], Some(choice[i][2]), None, None)>>])

InitMeals ==
    /\ redis_client = "client"
    /\ redisUp = TRUE
    /\ store = <<>>
    /\ now = Now0
    /\ pc = [h \in Handlers |-> "idle"]
    /\ variant = [h \in Handlers |-> "service"]
    /\ req = [h \in Handlers |-> 0]
    /\ ran = [h \in Handlers |-> {}]
    /\ out = [h \in Handlers |-> NoReply]
    /\ firstReply = <<>>
    /\ \E n \in 1..MaxMeals, choice \in [DOMAIN SlotTimes -> {<<>>} \cup SlotKinds],
          fn \in {"analyze_comprehensive_patterns", "analyze_meal_correlations"} :
          \E times \in [1..n -> MealTimes] :
              /\ SlotRecords(choice) # <<>>
              /\ call = [fn |-> fn,
                         bowel_movements |-> SlotRecords(choice),
                         meals |-> Some([i \in 1..n |-> DinnerAt(times[i])]),
                         symptoms |-> None]
    /\ ret = NotReturned

\* the stand-alone entry point's analyze_meal_correlations
CallLegacyMealCorrelations ==
    /\ call.fn = "analyze_meal_correlations"
    /\ ret = NotReturned
    /\ ret' = Return(legacy_analyze_meal_correlations(call.bowel_movements, Val(call.meals)))
    /\ UNCHANGED <<svcVars, call>>

NextMeals == CallAnalyzer \/ CallLegacyMealCorrelations

SpecMeals == InitMeals /\ [][NextMeals]_vars

----------------------------------------------------------------------------

(* Direct calls of the two trend computations on longer record lists: three *)
(* blocks of equal records at distinct, increasing times, handed over in    *)
(* chronological or in another order.                                       *)

MaxBlock == 5           \* records per block

TrendBristol == {1, 4}
TrendPain == {None, Some(2), Some(8)}
TrendMidPain == {None, Some(2)}

\* k1 records (a, p1), then k2 records (b, p2), then k3 records (c, p3)
TrendRecords(k1, a, p1, k2, b, p2, k3, c, p3) ==
    [i \in 1..(k1 + k2 + k3) |->
        IF i <= k1 THEN BM(i * HalfDay, a, p1, None, None)
        ELSE IF i <= k1 + k2 THEN BM(i * HalfDay, b, p2, None, None)
        ELSE BM(i * HalfDay, c, p3, None, None)]

Reverse(s) == [i \in DOMAIN s |-> s[Len(s) + 1 - i]]
\* the later half first, then the earlier half
Swapped(s) == SubSeq(s, Len(s) \div 2 + 1, Len(s)) \o SubSeq(s, 1, Len(s) \div 2)

Orders == {"chronological", "reversed", "swapped"}

Supplied(order, chronological) ==
    CASE order = "reversed" -> Reverse(chronological)
      [] order = "swapped" -> Swapped(chronological)
      [] OTHER -> chronological

InitTrend ==
    /\ redis_client = "client"
    /\ redisUp = TRUE
    /\ store = <<>>
    /\ now = Now0
    /\ pc = [h \in Handlers |-> "idle"]
    /\ variant = [h \in Handlers |-> "service"]
    /\ req = [h \in Handlers |-> 0]
    /\ ran = [h \in Handlers |-> {}]
    /\ out = [h \in Handlers |-> NoReply]
    /\ firstReply = <<>>
    /\ \E k1 \in 0..MaxBlock, k2 \in 0..MaxBlock, k3 \in 0..MaxBlock,
          a \in TrendBristol, b \in TrendBristol, c \in TrendBristol,
          pa \in TrendPain, pb \in TrendMidPain, pc3 \in TrendPain,
          order \in Orders,
          fn \in {"_analyze_bristol_patterns", "_calculate_trend"} :
          /\ k1 + k2 + k3 >= 1
          /\ call = [fn |-> fn, order |-> order,
                     chronological |-> TrendRecords(k1, a, pa, k2, b, pb, k3, c, pc3)]
    /\ ret = NotReturned

CallBristolPatterns ==
    /\ call.fn = "_analyze_bristol_patterns"
    /\ ret = NotReturned
    /\ ret' = Return(_analyze_bristol_patterns(
                  _create_bowel_movement_dataframe(
                      Supplied(call.order, call.chronological))).trend)
    /\ UNCHANGED <<svcVars, call>>

CallCalculateTrend ==
    /\ call.fn = "_calculate_trend"
    /\ ret = NotReturned
    /\ ret' = Return(_calculate_trend(Supplied(call.order, call.chronological)))
    /\ UNCHANGED <<svcVars, call>>

NextTrend == CallBristolPatterns \/ CallCalculateTrend

SpecTrend == InitTrend /\ [][NextTrend]_vars

----------------------------------------------------------------------------
(* Properties of the request handlers (specification Spec) *)

IsError(status) ==
    status \in {HTTP_400_BAD_REQUEST, HTTP_500_INTERNAL_SERVER_ERROR}

\* C1: a request with an empty health-record list is answered with an error:
\* no report body is returned, no analyzer, health-score or recommendation
\* step is invoked for it, and it writes nothing to the cache.
C1_EmptyInputFails ==
    \A h \in Handlers :
        (req[h] # 0 /\ Req(h).entries = <<>>) =>
            /\ ran[h] = {}
            /\ out[h].body = NoBody
            /\ out[h].status # HTTP_200_OK
            /\ pc[h] = "done" => IsError(out[h].status)

C1_Witness ==
    \E h \in Handlers :
        /\ pc[h] = "done"
        /\ req[h] # 0
        /\ Req(h).entries = <<>>
        /\ IsError(out[h].status)

\* C3: a request answered from the cache runs none of the computation steps
\* and its reply body is identical to the body returned by the call that
\* wrote the cache entry.
C3_CacheHitIdentical ==
    \A h \in Handlers :
        (pc[h] = "done" /\ out[h].cached) =>
            /\ ran[h] = {}
            /\ generate_analysis_cache_key(Req(h)) \in DOMAIN firstReply =>
                   out[h].body = firstReply[generate_analysis_cache_key(Req(h))]

\* the computation steps a request of the packaged service has to complete
RequiredSteps(request) ==
    {"analyzer"}
    \cup (IF request.include_predictions THEN {"health_score"} ELSE {})
    \cup (IF request.include_recommendations THEN {"recommendations"} ELSE {})

\* the whole report of handler h, as the cache stores it
WholeReport(h) ==
    IF variant[h] = "service"
    THEN json_round_trip(build_response(Req(h), service_analysis(Req(h)).value))
    ELSE perform_comprehensive_analysis(Req(h).entries, legacy_meals(Req(h)))

KeyOf(h) ==
    IF variant[h] = "service" THEN generate_analysis_cache_key(Req(h))
    ELSE legacy_cache_key(Req(h), now)

\* handler h takes its last step, having completed every computation step,
\* and the key space changes by exactly one entry: its whole report
FinalWriteBy(h) ==
    /\ pc[h] \in {"store", "legacy_store"}
    /\ pc'[h] = "done"
    /\ out'[h].status = HTTP_200_OK
    /\ (IF variant[h] = "service" THEN RequiredSteps(Req(h))
        ELSE {"analyzer", "recommendations"}) \subseteq ran[h]
    /\ DOMAIN store' = DOMAIN store \cup {KeyOf(h)}
    /\ store'[KeyOf(h)] = WholeReport(h)
    /\ \A k \in DOMAIN store \ {KeyOf(h)} : store'[k] = store[k]

EntriesOnlyRemoved ==
    /\ DOMAIN store' \subseteq DOMAIN store
    /\ \A k \in DOMAIN store' : store'[k] = store[k]

Computable(v, request) ==
    IF v = "service"
    THEN /\ validate_analysis_request(request, Now0) = {}
         /\ ~IsNone(request.meals) /\ ~IsNone(request.symptoms)
         /\ ~Raised(service_analysis(request))
    ELSE request.entries # <<>>

\* C5: whatever the state of the cache, a request that is not answered from
\* the cache and can be computed gets status 200 and the report a working,
\* empty cache would give; no cache error reaches the caller.
C5_CacheFailureHarmless ==
    \A h \in Handlers :
        (pc[h] = "done" /\ ~out[h].cached /\ Computable(variant[h], Req(h))) =>
            /\ out[h].status = HTTP_200_OK
            /\ out[h].body =
                  IF variant[h] = "service"
                  THEN wire_encode(build_response(Req(h), service_analysis(Req(h)).value))
                  ELSE perform_comprehensive_analysis(Req(h).entries, legacy_meals(Req(h)))

\* the sections of a report that every request asks for
MandatorySections(analysis_result) ==
    [patterns |-> analysis_result.patterns,
     correlations |-> analysis_result.correlations,
     bristol_trends |-> analysis_result.bristol_analysis]

\* the optional lists of a report for the recommendations flag
OptionalLists(request, analysis_result) ==
    IF request.include_recommendations
    THEN [recommendations |->
              generate_recommendations(analysis_result, request.entries,
                                       IF Truthy(request.meals) THEN request.meals
                                       ELSE None),
          risk_factors |-> identify_risk_factors(request.entries, analysis_result)]
    ELSE [recommendations |-> <<>>, risk_factors |-> <<>>]

\* C17: the flags change only the optional parts of the report: the
\* distribution, timing, frequency and correlation sections are those of
\* the input whatever the flags; the report carries a health score exactly
\* when the health-score flag is set; recommendations and risk factors are
\* computed exactly when the recommendations flag is set and are empty
\* otherwise.
C17_FlagsGateOptionalParts ==
    \A h \in Handlers :
        (variant[h] = "service" /\ pc[h] = "done" /\ out[h].status = HTTP_200_OK) =>
            /\ MandatorySections(service_analysis(Req(h)).value)
                   = [patterns |-> out[h].body.patterns,
                      correlations |-> out[h].body.correlations,
                      bristol_trends |-> out[h].body.bristol_trends]
            /\ ("health_score" \in DOMAIN out[h].body) <=> Req(h).include_predictions
            /\ OptionalLists(Req(h), service_analysis(Req(h)).value)
                   = [recommendations |-> out[h].body.recommendations,
                      risk_factors |-> out[h].body.risk_factors]

----------------------------------------------------------------------------
\* the request of handler h went to the packaged service and its validator
\* rejects it
Rejected(h) ==
    /\ req[h] # 0 /\ variant[h] = "service"
    /\ validate_analysis_request(Req(h), now) # {}

\* C28: a request that the validator rejects is answered with status 400,
\* never with status 500, and no cache lookup, analysis or cache write
\* happens for it.
C28_RejectedAnswered400 ==
    \A h \in Handlers :
        Rejected(h) =>
            /\ pc[h] \in {"validate", "done", "abandoned"}
            /\ ran[h] = {}
            /\ pc[h] = "done" => out[h].status = HTTP_400_BAD_REQUEST

(* Properties of concurrent requests (specification SpecConcurrent) *)

\* the complete report for a request, as the response model holds it
ReportOf(request) == build_response(request, service_analysis(request).value)

\* the bodies that carry the complete report of a request: the fresh
\* response, or the response read back from the cache
BodiesOf(report) == {wire_encode(report), wire_encode(json_round_trip(report))}

\* every cache entry is the complete report for the input of its key
EntriesComplete ==
    \A k \in DOMAIN store :
        /\ k.digest \in RequestIds
        /\ k = generate_analysis_cache_key(Requests[k.digest])
        /\ store[k] = json_round_trip(ReportOf(Requests[k.digest]))

\* C27: under every interleaving of two concurrent requests, with identical
\* or different inputs, each caller that is answered receives the complete
\* report computed from its own input, and every entry of the cache is the
\* complete report for the input of its fingerprint, never a partial or
\* mixed one.
C27_ConcurrentRequestsIndependent ==
    /\ \A h \in DOMAIN pc :
           (pc[h] = "done" /\ Computable("service", Req(h))) =>
               /\ out[h].status = HTTP_200_OK
               /\ out[h].body \in BodiesOf(ReportOf(Req(h)))
    /\ EntriesComplete

\* both callers computed the report of the same input, and one entry is left
C27_Witness ==
    /\ DOMAIN pc = Callers
    /\ \A h \in Callers :
           /\ pc[h] = "done" /\ ~out[h].cached
           /\ "cache_write" \in ran[h]
           /\ req[h] = 5
    /\ DOMAIN store = {generate_analysis_cache_key(Requests[5])}

----------------------------------------------------------------------------

(* Properties of the analysis core (specification SpecCore) *)

Returned == ret # NotReturned

InRangeBM(bm) ==
    /\ bm.bristol_type \in 1..7
    /\ IsNone(bm.pain) \/ Val(bm.pain) \in 1..10
    /\ IsNone(bm.strain) \/ Val(bm.strain) \in 1..10
    /\ IsNone(bm.satisfaction) \/ Val(bm.satisfaction) \in 1..10

InRangeCall ==
    /\ \A i \in DOMAIN call.bowel_movements : InRangeBM(call.bowel_movements[i])
    /\ \A i \in DOMAIN ListOrEmpty(call.symptoms) :
           ListOrEmpty(call.symptoms)[i].severity \in 1..10

\* C2: analyze_comprehensive_patterns on a non-empty list of in-range
\* records raises no error, whatever optional fields are absent, and returns
\* the sections; without meals correlations.meals is empty, without symptoms
\* correlations.symptoms is empty.
C2_InRangeNeverRaises ==
    (call.fn = "analyze_comprehensive_patterns" /\ Returned /\ InRangeCall) =>
        /\ ~Raised(ret)
        /\ ~Truthy(call.meals) => ret.value.correlations.meals = <<>>
        /\ ~Truthy(call.symptoms) => ret.value.correlations.symptoms = <<>>

\* C6: a call of the analysis with an out-of-range value raises an error;
\* no report or score is computed from the value.
C6_OutOfRangeRejected ==
    (call.fn \in {"analyze_comprehensive_patterns", "calculate_health_score"}
        /\ Returned /\ ~InRangeCall) => Raised(ret)

\* the records that lie 6 to 48 hours, borders included, after a meal of ms
InDigestionWindow(ms, bms) ==
    {<<i, j>> \in (DOMAIN ms) \X (DOMAIN bms) :
        /\ ms[i].meal_time + 6 * 60 <= bms[j].created_at
        /\ bms[j].created_at <= ms[i].meal_time + 48 * 60}

\* C7: a record belongs to a meal's digestion window exactly when
\* meal_time + 6h <= t <= meal_time + 48h: a meal category is reported
\* exactly when some record lies in the closed window of one of its meals,
\* and for a single meal the reported average is the mean over exactly the
\* records in its closed window.
C7_WindowClosed ==
    (call.fn = "analyze_comprehensive_patterns" /\ Returned /\ ~Raised(ret)
        /\ Truthy(call.meals)) =>
        LET meals == Val(call.meals)
            bms == call.bowel_movements
            reported == ret.value.correlations.meals.category_correlations
        IN  \A i \in DOMAIN meals :
                ~IsNone(meals[i].category) =>
                    LET c == Val(meals[i].category)
                        IsC(m) == m.category = Some(c)
                        ms == SelectSeq(meals, IsC)
                        inside == {p[2] : p \in InDigestionWindow(ms, bms)}
                        Inside(bm) == \E j \in inside : bms[j] = bm
                    IN  /\ (c \in DOMAIN reported) <=> (inside # {})
                        /\ (c \in DOMAIN reported /\ Len(ms) = 1) =>
                               reported[c].avg_bristol_scores =
                                   Mean(bristol_of(SelectSeq(bms, Inside)))

\* a record exactly 6h and a record exactly 48h after the meal, both counted
C7_Witness ==
    /\ call.fn = "analyze_comprehensive_patterns" /\ Returned /\ ~Raised(ret)
    /\ Truthy(call.meals)
    /\ Len(call.bowel_movements) = 2
    /\ call.bowel_movements[1].created_at = T_meal + 6 * 60
    /\ call.bowel_movements[2].created_at = T_meal + 48 * 60
    /\ call.bowel_movements[1].bristol_type # call.bowel_movements[2].bristol_type
    /\ "dinner" \in DOMAIN ret.value.correlations.meals.category_correlations
    /\ ret.value.correlations.meals.category_correlations["dinner"].avg_bristol_scores
           = Mean(bristol_of(call.bowel_movements))

\* C18: in the report of analyze_comprehensive_patterns every symptom type
\* that occurs at least once in the supplied symptoms has an entry in
\* correlations.symptoms.
C18_EverySymptomTypeReported ==
    (call.fn = "analyze_comprehensive_patterns" /\ Returned /\ ~Raised(ret)) =>
        \A i \in DOMAIN ListOrEmpty(call.symptoms) :
            ListOrEmpty(call.symptoms)[i].type \in DOMAIN ret.value.correlations.symptoms

\* a type that occurs once, far from every record, next to one that occurs twice
C18_Witness ==
    /\ call.fn = "analyze_comprehensive_patterns" /\ Returned /\ ~Raised(ret)
    /\ Truthy(call.symptoms)
    /\ \E i \in DOMAIN Val(call.symptoms) :
          /\ \A j \in DOMAIN Val(call.symptoms) :
                 Val(call.symptoms)[j].type = Val(call.symptoms)[i].type => j = i
          /\ nearby_bms(call.bowel_movements, Val(call.symptoms)[i]) = <<>>
          /\ Val(call.symptoms)[i].type \in DOMAIN ret.value.correlations.symptoms
    /\ Cardinality(DOMAIN ret.value.correlations.symptoms) = 2

\* the number of supplied symptoms of a type
Occurrences(ty) ==
    Cardinality({i \in DOMAIN ListOrEmpty(call.symptoms) :
                    ListOrEmpty(call.symptoms)[i].type = ty})

\* C22: the symptom correlations of the report hold an entry only for a
\* symptom type with at least 3 occurrences in the input; a type with 1 or
\* 2 occurrences produces no entry.
C22_RareSymptomTypeUnreported ==
    (call.fn = "analyze_comprehensive_patterns" /\ Returned /\ ~Raised(ret)) =>
        \A ty \in DOMAIN ret.value.correlations.symptoms : Occurrences(ty) >= 3

----------------------------------------------------------------------------
(* Properties of the trend computations (specification SpecTrend) *)

NumRecords == Len(call.chronological)

\* C8: the primary-scale trend is computed exactly when there are at least
\* 10 records: with 9 or fewer it is "stable", with 10 or more it is the
\* result of the first-third/last-third comparison.
C8_TrendFromTenRecords ==
    (call.fn = "_analyze_bristol_patterns" /\ Returned) =>
        /\ NumRecords <= 9 => ret.value = Some("stable")
        /\ NumRecords >= 10 => ret.value \in {Some("improving"), Some("declining"),
                                              Some("stable")}

\* C9: the trends do not depend on the order in which the records are
\* supplied: the result for the supplied order equals the result for the
\* same records in chronological order.
C9_OrderIndependent ==
    Returned =>
        /\ call.fn = "_analyze_bristol_patterns" =>
               ret.value = _analyze_bristol_patterns(call.chronological).trend
        /\ call.fn = "_calculate_trend" =>
               ret.value = _calculate_trend(call.chronological)

\* the two halves of the chronological list and their pain values
Historical == SubSeq(call.chronological, 1, NumRecords \div 2)
Recent == SubSeq(call.chronological, NumRecords \div 2 + 1, NumRecords)

PrimarySubTrend ==
    _assess_bristol_trend(Mean(bristol_of(Historical)), Mean(bristol_of(Recent)))

\* recent mean below (above) historical mean by more than 1.0
PainSubTrend ==
    LET hp == pain_of(Historical)
        rp == pain_of(Recent)
    IN  IF hp = <<>> \/ rp = <<>> THEN "stable"
        ELSE IF SeqSum(rp) * Len(hp) < (SeqSum(hp) - Len(hp)) * Len(rp) THEN "improving"
        ELSE IF SeqSum(rp) * Len(hp) > (SeqSum(hp) + Len(hp)) * Len(rp) THEN "declining"
        ELSE "stable"

\* C10: for 14 or more records the composite trend is "improving" exactly
\* when the primary sub-trend is improving and the pain sub-trend is not
\* declining, otherwise "declining" exactly when either sub-trend is
\* declining, otherwise "stable"; the pain sub-trend is stable when a half
\* has no pain value; for fewer than 14 records the composite trend is "stable".
C10_CompositeTrend ==
    (call.fn = "_calculate_trend" /\ Returned) =>
        IF NumRecords < 14 THEN ret.value = "stable"
        ELSE /\ ret.value = "improving" <=>
                    (PrimarySubTrend = "improving" /\ PainSubTrend # "declining")
             /\ ret.value = "declining" <=>
                    /\ ~(PrimarySubTrend = "improving" /\ PainSubTrend # "declining")
                    /\ (PrimarySubTrend = "declining" \/ PainSubTrend = "declining")
             /\ ret.value \in {"improving", "declining", "stable"}

\* 14 or more records whose primary scale improves while pain declines
C10_Witness ==
    /\ call.fn = "_calculate_trend" /\ Returned
    /\ NumRecords >= 14
    /\ PrimarySubTrend = "improving"
    /\ PainSubTrend = "declining"
    /\ ret.value = "declining"

\* the floor(n/3) chronologically earliest and latest records
EarliestThird == SubSeq(call.chronological, 1, NumRecords \div 3)
LatestThird ==
    SubSeq(call.chronological, NumRecords - NumRecords \div 3 + 1, NumRecords)

\* k times d(mean) for a group of k records: min(|sum - 3k|, |sum - 4k|)
ScaledDistance(group) ==
    Min2(Abs(SeqSum(bristol_of(group)) - 3 * Len(group)),
         Abs(SeqSum(bristol_of(group)) - 4 * Len(group)))

\* C19: when the primary-scale trend is computed over n records it compares
\* the floor(n/3) chronologically earliest records with the floor(n/3)
\* chronologically latest ones by d(x) = min(|x-3|, |x-4|) of the group
\* means: "improving" exactly when d(recent) < d(early) - 0.3, "declining"
\* exactly when d(recent) > d(early) + 0.3, "stable" otherwise; 12 records
\* whose earliest six are of types 6/7 and latest six of types 3/4 give
\* "improving".
C19_ThirdsCompared ==
    (call.fn = "_analyze_bristol_patterns" /\ Returned /\ ~IsNone(ret.value)) =>
        LET k == NumRecords \div 3
            early == ScaledDistance(EarliestThird)
            recent == ScaledDistance(LatestThird)
        IN  /\ ret.value = Some("improving") <=> 10 * recent < 10 * early - 3 * k
            /\ ret.value = Some("declining") <=> 10 * recent > 10 * early + 3 * k
            /\ ret.value \in {Some("improving"), Some("declining"), Some("stable")}
            /\ (/\ NumRecords = 12
                /\ \A i \in 1..6 : call.chronological[i].bristol_type \in {6, 7}
                /\ \A i \in 7..12 : call.chronological[i].bristol_type \in {3, 4})
               => ret.value = Some("improving")

----------------------------------------------------------------------------
(* Properties of the scores (specification SpecScore) *)

InPercent(score) == 0 <= score /\ score <= 100 * 100
InUnit(ratio) == 0 <= ratio /\ ratio <= Scale

\* C11: for every non-empty list of in-range records the category,
\* frequency, pain and satisfaction scores and the overall score lie in
\* [0,100], and the consistency score and the timing-regularity score in
\* [0,1].
C11_ScoresInRange ==
    (Returned /\ ~Raised(ret) /\ call.bowel_movements # <<>> /\ InRangeCall) =>
        /\ call.fn = "calculate_health_score" =>
               /\ InPercent(ret.value.bristol_score)
               /\ InPercent(ret.value.frequency_score)
               /\ InPercent(ret.value.pain_score)
               /\ InPercent(ret.value.satisfaction_score)
               /\ InPercent(ret.value.overall_score)
        /\ call.fn = "analyze_comprehensive_patterns" =>
               /\ InUnit(ret.value.patterns.frequency.consistency_score)
               /\ InUnit(ret.value.patterns.timing.regularity_score)

\* seven or more records with a penalised frequency score and a pain score
\* below 100
C11_Witness ==
    /\ call.fn = "calculate_health_score" /\ Returned
    /\ Len(call.bowel_movements) >= regularity_min_len
    /\ InRangeCall
    /\ ret.value.frequency_score > 0
    /\ ret.value.frequency_score < 100 * 100
    /\ ret.value.pain_score < 100 * 100
    /\ ret.value.overall_score > 0

WeightedSumOf(score) ==
    weighted_overall(score.bristol_score, score.frequency_score,
                     score.pain_score, score.satisfaction_score).overall_score

\* C13: the health score over no records is exactly overall 0, category 0,
\* frequency 0, pain 100, satisfaction 50 and trend "stable"; the overall
\* score is that fixed floor and not the weighted sum of the components.
C13_EmptyHealthScore ==
    (call.fn = "calculate_health_score" /\ call.bowel_movements = <<>> /\ Returned) =>
        /\ ret.value = [overall_score |-> 0, bristol_score |-> 0,
                        frequency_score |-> 0, pain_score |-> 100 * 100,
                        satisfaction_score |-> 50 * 100, trend |-> "stable"]
        /\ ret.value.overall_score # WeightedSumOf(ret.value)

C13_Witness ==
    /\ call.fn = "calculate_health_score" /\ call.bowel_movements = <<>>
    /\ Returned /\ ~Raised(ret)
    /\ ret.value.pain_score = 100 * 100

\* ten records, all of Bristol type 1
TenOfTypeOne ==
    /\ Len(call.bowel_movements) = 10
    /\ \A i \in DOMAIN call.bowel_movements : call.bowel_movements[i].bristol_type = 1

AnalysisOfCall ==
    analyze_comprehensive_patterns(call.bowel_movements, call.meals, call.symptoms).value

Weights(recommendations) ==
    [i \in DOMAIN recommendations |-> _get_priority_weight(recommendations[i].priority)]

\* recs is sorted by weight, highest first, has at most 10 elements, and these
\* are the generated ones but for generated ones of no higher weight
TopOf(recs, generated) ==
    /\ \A i \in DOMAIN recs : \A j \in DOMAIN recs :
           i < j => Weights(recs)[i] >= Weights(recs)[j]
    /\ Len(recs) = Min2(10, Len(generated))
    /\ Range(recs) \subseteq Range(generated)
    /\ Cardinality(Range(recs)) = Len(recs)
    /\ \A g \in Range(generated) \ Range(recs) :
           \A i \in DOMAIN recs : _get_priority_weight(g.priority) <= Weights(recs)[i]

\* risks holds every risk factor of the four rule groups, and nothing else
AllOf(risks, bowel_movements, analysis_result) ==
    /\ Range(risks) = Range(_identify_bristol_risks(bowel_movements))
                      \cup Range(_identify_frequency_risks(analysis_result))
                      \cup Range(_identify_pain_risks(bowel_movements))
                      \cup Range(_identify_pattern_risks(analysis_result))
    /\ Len(risks) = Len(_identify_bristol_risks(bowel_movements))
                    + Len(_identify_frequency_risks(analysis_result))
                    + Len(_identify_pain_risks(bowel_movements))
                    + Len(_identify_pattern_risks(analysis_result))

\* C16: the list of generate_recommendations is ordered by priority weight
\* descending, has at most 10 elements, and these are the highest-priority
\* ones generated; the list of identify_risk_factors contains every risk
\* factor generated.
C16_TopTenByPriority ==
    (Returned /\ ~Raised(ret)) =>
        /\ call.fn = "generate_recommendations" =>
               TopOf(ret.value,
                     generated_recommendations(AnalysisOfCall, call.bowel_movements,
                                               call.meals))
        /\ call.fn = "identify_risk_factors" =>
               AllOf(ret.value, call.bowel_movements, AnalysisOfCall)

\* three priorities in the list, generated in another order than returned
C16_Witness ==
    /\ call.fn = "generate_recommendations" /\ Returned /\ ~Raised(ret)
    /\ {ret.value[i].priority : i \in DOMAIN ret.value} = {"high", "medium", "low"}
    /\ ret.value # generated_recommendations(AnalysisOfCall, call.bowel_movements,
                                             call.meals)

----------------------------------------------------------------------------
\* the pain scores of the call's records, and those above 7
PainScored == pain_of(call.bowel_movements)
HighPain == Cardinality({i \in DOMAIN PainScored : PainScored[i] > 7})

\* the severities under which a list of risk factors holds a factor
SeveritiesOf(risks, factor) ==
    {risks[i].severity : i \in {j \in DOMAIN risks : risks[j].factor = factor}}

\* C23: when more than 0.2 of the pain-scored records have pain > 7, the
\* risk factors include frequent_high_pain, with severity high if the ratio
\* is > 0.4 and medium otherwise; when the ratio is at most 0.2 (or no
\* record has a pain score) frequent_high_pain is not among them.
C23_FrequentHighPainReported ==
    (call.fn = "identify_risk_factors" /\ Returned /\ ~Raised(ret)) =>
        SeveritiesOf(ret.value, "frequent_high_pain") =
            IF 5 * HighPain > Len(PainScored)
            THEN {IF 5 * HighPain > 2 * Len(PainScored) THEN "high" ELSE "medium"}
            ELSE {}

----------------------------------------------------------------------------
\* the food lists of the analysis the recommender is handed
FoodsOfCall == AnalysisOfCall.correlations.meals

\* how often a title occurs among recommendations
TitleCount(recs, title) == Cardinality({i \in DOMAIN recs : recs[i].title = title})

MealsSupplied ==
    /\ call.fn = "generate_recommendations" /\ Truthy(call.meals)
    /\ Returned /\ ~Raised(ret)

\* recs holds one "limit X" for every trigger food
TriggersLimited(foods, recs) ==
    \A i \in DOMAIN foods.trigger_foods :
        TitleCount(recs, limit_title(title_of(foods.trigger_foods[i].type))) = 1

\* recs holds one "limit X" for every trigger food of high severity, none
\* for the others
HighTriggersLimited(foods, recs) ==
    \A i \in DOMAIN foods.trigger_foods :
        TitleCount(recs, limit_title(title_of(foods.trigger_foods[i].type)))
            = IF foods.trigger_foods[i].severity = "high" THEN 1 ELSE 0

\* recs holds one "include more X" for every beneficial food
BeneficialIncluded(foods, recs) ==
    \A i \in DOMAIN foods.beneficial_foods :
        TitleCount(recs, include_title(title_of(foods.beneficial_foods[i].type))) = 1

\* C24 as stated: with meals supplied, every trigger bucket yields one
\* "limit X" recommendation, whatever its severity, and every beneficial
\* bucket one "include more X" recommendation.
C24_EveryTriggerLimited ==
    MealsSupplied =>
        TriggersLimited(FoodsOfCall, ret.value) /\ BeneficialIncluded(FoodsOfCall, ret.value)

\* C24 amended: a trigger bucket yields one "limit X" recommendation when
\* its severity is high and none when its severity is medium; every
\* beneficial bucket yields one "include more X" recommendation.
C24_HighSeverityTriggerLimited ==
    MealsSupplied =>
        HighTriggersLimited(FoodsOfCall, ret.value)
        /\ BeneficialIncluded(FoodsOfCall, ret.value)

\* the food lists hold dairy as a trigger of medium severity
MediumDairyTrigger(foods) ==
    \E i \in DOMAIN foods.trigger_foods :
        /\ foods.trigger_foods[i].type = "dairy"
        /\ foods.trigger_foods[i].severity = "medium"

\* a trigger bucket of medium severity, and no recommendation to limit it
C24_Witness ==
    /\ MealsSupplied
    /\ MediumDairyTrigger(FoodsOfCall)
    /\ TitleCount(ret.value, "Limit Dairy Foods") = 0
    /\ ret.value # <<>>

----------------------------------------------------------------------------
\* the statistics are those of a mean daily frequency of at least 1
AtLeastDaily(frequency) ==
    /\ RGe(frequency.avg_daily, RInt(1))
    /\ RLe(RInt(frequency.min_daily), frequency.avg_daily)
    /\ RLe(frequency.avg_daily, RInt(frequency.max_daily))

\* C29: for a non-empty record list the mean daily frequency is at least 1
\* and lies between min_daily and max_daily; so the routine recommendation
\* (mean below 0.5), the severe_constipation risk factor (mean below 0.3)
\* and the below-range branch of the frequency score are never triggered.
C29_MeanDailyAtLeastOne ==
    (Returned /\ ~Raised(ret) /\ call.bowel_movements # <<>>) =>
        /\ call.fn = "analyze_comprehensive_patterns" =>
               AtLeastDaily(ret.value.patterns.frequency)
        /\ call.fn = "generate_recommendations" =>
               TitleCount(ret.value, "Establish Regular Bathroom Routine") = 0
        /\ call.fn = "identify_risk_factors" =>
               SeveritiesOf(ret.value, "severe_constipation") = {}
        /\ call.fn = "calculate_health_score" =>
               RGe(Mean(_calculate_daily_frequencies(call.bowel_movements)), RInt(1))

\* three records in eleven days, one per day, and no severe_constipation
C29_Witness ==
    /\ call.fn = "identify_risk_factors" /\ Returned /\ ~Raised(ret)
    /\ Len(call.bowel_movements) = 3
    /\ date_of(call.bowel_movements[3].created_at)
           - date_of(call.bowel_movements[1].created_at) = 10
    /\ SeveritiesOf(ret.value, "severe_constipation") = {}

----------------------------------------------------------------------------
\* the number of recommendations whose title is one of the given titles
TitlesCount(recs, titles) == Cardinality({i \in DOMAIN recs : recs[i].title \in titles})

\* the caps of the five rule groups on a generated list
GroupCaps(generated) ==
    /\ TitlesCount(generated, {"Increase Fiber Intake", "Follow BRAT Diet"}) <= 2
    /\ TitlesCount(generated, {"Establish Regular Bathroom Routine",
                               "Monitor Frequent Bowel Movements"}) <= 1
    /\ TitlesCount(generated, {"Address Bowel Movement Pain",
                               "Stress Reduction Techniques"}) <= 2
    /\ \A i \in DOMAIN food_types :
           TitlesCount(generated, {limit_title(title_of(food_types[i])),
                                   include_title(title_of(food_types[i]))}) <= 1
    /\ TitlesCount(generated, {"Improve Schedule Regularity"}) <= 1

\* the returned list keeps every generated recommendation
NothingDiscarded(returned, generated) ==
    /\ Len(generated) <= max_recommendations
    /\ GroupCaps(generated)
    /\ Len(returned) = Len(generated)
    /\ \A i \in DOMAIN generated :
           TitleCount(returned, generated[i].title) = TitleCount(generated, generated[i].title)

\* C30: generate_recommendations produces at most 10 recommendations before
\* the truncation (at most 2 from the distribution rules, 1 from frequency,
\* 2 from pain, 1 per food bucket, 1 from timing), so the truncation to the
\* top 10 never discards a generated recommendation.
C30_TruncationDiscardsNothing ==
    (call.fn = "generate_recommendations" /\ Returned /\ ~Raised(ret)) =>
        NothingDiscarded(ret.value,
                         generated_recommendations(AnalysisOfCall, call.bowel_movements,
                                                   call.meals))

\* a returned list with a food recommendation and four of the other rules
C30_Witness ==
    /\ call.fn = "generate_recommendations" /\ Returned /\ ~Raised(ret)
    /\ Len(ret.value) >= 5
    /\ \E i \in DOMAIN food_types :
           TitlesCount(ret.value, {limit_title(title_of(food_types[i])),
                                   include_title(title_of(food_types[i]))}) = 1

----------------------------------------------------------------------------
(* Properties of the distribution analysis (specification SpecDist) *)

ReportedPercentages == ret.value.bristol_analysis.percentages

PercentageSum ==
    SeqSum([t \in min_bristol_type..max_bristol_type |->
               percentage_of(ReportedPercentages, t)])

DistributionReturned ==
    /\ call.fn \in {"analyze_comprehensive_patterns", "analyze_bristol_patterns"}
    /\ Returned /\ ~Raised(ret)
    /\ \A i \in DOMAIN call.bowel_movements :
           call.bowel_movements[i].bristol_type \in min_bristol_type..max_bristol_type

\* C12 as stated: the percentages, each rounded to 2 decimals, sum to a
\* value within 0.02 of 100, and each percentage is in [0,100].
C12_SumWithinTwoHundredths ==
    DistributionReturned =>
        /\ Abs(PercentageSum - 100 * 100) <= 2
        /\ \A t \in DOMAIN ReportedPercentages : InPercent(ReportedPercentages[t])

\* C12 amended: the percentages sum to a value within 0.005 times the
\* number of categories present of 100 (0.035 for the seven Bristol types),
\* and each percentage is in [0,100].
C12_SumWithinHalfUnitPerCategory ==
    DistributionReturned =>
        /\ 2 * Abs(PercentageSum - 100 * 100) <= Cardinality(DOMAIN ReportedPercentages)
        /\ \A t \in DOMAIN ReportedPercentages : InPercent(ReportedPercentages[t])

\* one record of each of the seven types: seven times 14.29
C12_Witness ==
    /\ DistributionReturned
    /\ Cardinality(DOMAIN ReportedPercentages) = max_bristol_type
    /\ PercentageSum = 100 * 100 + 3

----------------------------------------------------------------------------
(* Properties of the food classifications (specification SpecFood) *)

FoodReturned ==
    /\ call.fn \in {"analyze_comprehensive_patterns", "_detect_meal_patterns"}
    /\ Truthy(call.meals)
    /\ Returned /\ ~Raised(ret)

ByAnalyzer == call.fn = "analyze_comprehensive_patterns"

\* the meals of a bucket, as the called classification groups them
BucketMeals(ft) ==
    IF ByAnalyzer THEN food_group(Val(call.meals), ft)
    ELSE meal_group(Val(call.meals), ft)

\* the number of records the digestion windows of a bucket yield
Downstream(ft) ==
    Cardinality({p \in InDigestionWindow(BucketMeals(ft), call.bowel_movements) : TRUE})

\* the buckets a returned classification lists under a class
ClassifiedAs(analyzer_list, detector_type) ==
    IF ByAnalyzer
    THEN {analyzer_list[i].type : i \in DOMAIN analyzer_list}
    ELSE IF IsNone(ret.value) THEN {}
    ELSE {Val(ret.value).detected_patterns[i].food_type :
             i \in {j \in DOMAIN Val(ret.value).detected_patterns :
                       Val(ret.value).detected_patterns[j].type = detector_type}}

TriggerBuckets ==
    ClassifiedAs(IF ByAnalyzer THEN ret.value.correlations.meals.trigger_foods ELSE <<>>,
                 "trigger_food")

BeneficialBuckets ==
    ClassifiedAs(IF ByAnalyzer THEN ret.value.correlations.meals.beneficial_foods ELSE <<>>,
                 "beneficial_food")

\* one meal, and a single record in its window: 24 hours later, type 4, pain 1
SingleIdealRecord ==
    /\ Len(Val(call.meals)) = 1
    /\ \E j \in DOMAIN call.bowel_movements :
          /\ call.bowel_movements[j].created_at = Val(call.meals)[1].meal_time + 24 * 60
          /\ call.bowel_movements[j].bristol_type = 4
          /\ call.bowel_movements[j].pain = Some(1)
          /\ InDigestionWindow(Val(call.meals), call.bowel_movements) = {<<1, j>>}

C20_SmallSampleUnclassified ==
    FoodReturned =>
        \A ft \in Range(food_types) :
            Downstream(ft) < 3 =>
                ft \notin TriggerBuckets /\ ft \notin BeneficialBuckets

\* the records in the digestion windows of a bucket's meals, once per meal
PooledRecords(ft) == related_movements(call.bowel_movements, BucketMeals(ft))

\* the severity the report gives a trigger bucket
SeverityOf(ft) ==
    LET triggers == ret.value.correlations.meals.trigger_foods
    IN  {triggers[i].severity : i \in {j \in DOMAIN triggers : triggers[j].type = ft}}

\* the class that the thresholds 2, 6 and 6 (trigger) and [3,4] and 3
\* (beneficial) give to a sample of records
ClassByThresholds(sample) ==
    LET avg_scale == Mean(bristol_of(sample))
        pains == pain_of(sample)
    IN  IF \/ RLe(avg_scale, RInt(2)) \/ RGe(avg_scale, RInt(6))
           \/ (pains # <<>> /\ RGt(Mean(pains), RInt(6)))
        THEN "trigger"
        ELSE IF /\ RLe(RInt(3), avg_scale) /\ RLe(avg_scale, RInt(4))
                /\ (pains = <<>> \/ RLe(Mean(pains), RInt(3)))
        THEN "beneficial"
        ELSE ""

\* C21: a bucket with at least 3 records in its digestion windows is a
\* trigger exactly when its average primary scale is <= 2 or >= 6 or its
\* average pain is > 6; otherwise it is beneficial exactly when its average
\* primary scale is in [3,4] and its average pain is <= 3 or absent; the
\* severity of a trigger is "high" when its average pain is > 7 and
\* "medium" otherwise.
C21_ClassificationThresholds ==
    (FoodReturned /\ Len(call.bowel_movements) >= detector_min_movements) =>
        \A ft \in Range(food_types) :
            (BucketMeals(ft) # <<>> /\ Downstream(ft) >= 3) =>
                /\ ft \in TriggerBuckets <=> ClassByThresholds(PooledRecords(ft)) = "trigger"
                /\ ft \in BeneficialBuckets <=> ClassByThresholds(PooledRecords(ft)) = "beneficial"
                /\ (ByAnalyzer /\ ft \in TriggerBuckets) =>
                       SeverityOf(ft) =
                           {IF pain_of(PooledRecords(ft)) # <<>>
                               /\ RGt(Mean(pain_of(PooledRecords(ft))), RInt(7))
                            THEN "high" ELSE "medium"}

----------------------------------------------------------------------------
(* Properties of the meal correlations (specification SpecMeals) *)

MealsReturned ==
    /\ call.fn \in {"analyze_comprehensive_patterns", "analyze_meal_correlations"}
    /\ Truthy(call.meals)
    /\ Returned /\ ~Raised(ret)

\* the records of the (meal, record) pairs with the record in the meal's
\* digestion window, a record once per qualifying meal
PairRecords(bms, meals) ==
    LET pairs == InDigestionWindow(meals, bms)
        OfMeal(i) == LET Paired(bm) == \E p \in pairs : p[1] = i /\ bms[p[2]] = bm
                     IN  SelectSeq(bms, Paired)
    IN  Flatten([i \in DOMAIN meals |-> OfMeal(i)])

\* the averages reported for the category of the call's meals
ReportedForDinner ==
    IF call.fn = "analyze_comprehensive_patterns"
    THEN LET reported == ret.value.correlations.meals.category_correlations
         IN  IF "dinner" \in DOMAIN reported
             THEN <<reported["dinner"].avg_bristol_scores, reported["dinner"].avg_pain_scores>>
             ELSE <<>>
    ELSE IF Some("dinner") \in DOMAIN ret.value
         THEN <<ret.value[Some("dinner")].avg_bristol>>
         ELSE <<>>

\* the pooled means over a non-empty list of paired records
PooledMeans(records) ==
    IF call.fn = "analyze_comprehensive_patterns"
    THEN <<Mean(bristol_of(records)), Mean(pain_of(records))>>
    ELSE <<Mean(bristol_of(records))>>

\* C25: for a meal category, the reported average primary scale (and
\* average pain) is the pooled mean over all (meal, record) pairs with the
\* record in the digestion window of a meal of the category, each record
\* counted once per qualifying meal, also when the windows of the meals
\* hold different numbers of records.
C25_PooledOverPairs ==
    (MealsReturned /\ PairRecords(call.bowel_movements, Val(call.meals)) # <<>>) =>
        ReportedForDinner = PooledMeans(PairRecords(call.bowel_movements, Val(call.meals)))

\* the gap in minutes from a meal to the earliest record strictly after it,
\* as a list: empty without such a record or when the gap exceeds 72 hours
GapAfter(bms, meal) ==
    LET later == {bms[j].created_at - meal.meal_time :
                     j \in {k \in DOMAIN bms : bms[k].created_at > meal.meal_time}}
    IN  IF later = {} THEN <<>>
        ELSE LET gap == CHOOSE g \in later : \A o \in later : g <= o
             IN  IF gap <= 72 * 60 THEN <<gap>> ELSE <<>>

\* the median of a non-empty list of minutes, in hours
MedianHours(gaps) ==
    LET n == Len(gaps)
        ordered == sorted_list(gaps)
    IN  IF n % 2 = 1 THEN Norm(ordered[(n + 1) \div 2], 60)
        ELSE Norm(ordered[n \div 2] + ordered[n \div 2 + 1], 2 * 60)

\* the timing correlation that a list of recorded gaps calls for
TimingFor(gaps) ==
    IF gaps = <<>> THEN <<>>
    ELSE [avg_meal_to_bm_hours |-> Norm(SeqSum(gaps), 60 * Len(gaps)),
          median_meal_to_bm_hours |-> MedianHours(gaps)]

\* C26: the timing correlation records for each meal the gap in hours to
\* the earliest record strictly after the meal, when that gap is at most 72
\* hours; avg_meal_to_bm_hours is the mean of the recorded gaps and
\* median_meal_to_bm_hours their median, for an odd and for an even number
\* of gaps; without a recorded gap the timing correlation is empty.
C26_TimingMeanAndMedian ==
    (MealsReturned /\ call.fn = "analyze_comprehensive_patterns") =>
        ret.value.correlations.meals.timing_correlations =
            TimingFor(Flatten([i \in DOMAIN Val(call.meals) |->
                                  GapAfter(call.bowel_movements, Val(call.meals)[i])]))

====
